---- MODULE Spec2Model ----
(***************************************************************************)
(* Model of app/services/ai.py: the task registry, the per-frame inference *)
(* pipeline, the per-client queues of InferenceManager, the background     *)
(* inference loop and the HLS segment flush; and of the task service of    *)
(* app/services/task.py.                                                   *)
(*                                                                         *)
(* Eleven specifications share the definitions:                            *)
(*   SpecPipeline   registry operations and single calls of                *)
(*                  _execute_inference_pipeline, one step per task;        *)
(*   Spec           the manager with its loop running: submit_frame, the   *)
(*                  inference loop and the segment flush;                  *)
(*   SpecLifecycle  start() and stop() in any order around a few frames;   *)
(*   SpecFacade     get_result, status, set_task, set_rtmp_url and         *)
(*                  remove_client around a running loop;                   *)
(*   SpecLock       the loop and the callers of the facade with the        *)
(*                  taking of the lock as a step of its own;               *)
(*   SpecTask       set_task, get_task and remove_client in any order      *)
(*                  around a running loop;                                 *)
(*   SpecClients    the calls that create, read and remove the state of a  *)
(*                  client;                                                *)
(*   SpecTaskService                                                       *)
(*                  start_task and terminate_task of app/services/task.py  *)
(*                  on a task and the rows of table clean_task;            *)
(*   SpecStart      start() and stop() called by several threads at once;  *)
(*   SpecFair       two clients around a loop that always gets to take its *)
(*                  next step;                                             *)
(*   SpecSubmit     submit_frame called by two threads at once, around the *)
(*                  loop and its flush.                                    *)
(***************************************************************************)
EXTENDS Integers, Sequences, FiniteSets, TLC

VARIABLES
    \* TaskRegistry
    _tasks,             \* dict name -> InferenceTask, in insertion order
    _execution_order,   \* list of task names
    registry_ops,       \* number of register/unregister/enable_task calls made
    \* one call of _execute_inference_pipeline (SpecPipeline)
    pl_pc,              \* position inside the call
    pl_task,            \* the CleaningTask argument (0: None)
    tasks,              \* local: get_enabled_tasks() at the start of the call
    futures,            \* local: submitted independent tasks, in submission order
    all_results,        \* local: name -> InferenceResult
    pl_i,               \* local: loop index of the running phase
    result_frame,       \* local: the frame, as the overlays drawn onto it
    infer_log,          \* every infer invocation of the call: the task, the results
                        \* its context held, and what the invocation did
    tasks_at_call,      \* history: the registry's dict when the call started
    visualize_log,      \* every visualize invocation of the call
    pl_faults,          \* number of calls of this pipeline call that did not succeed
    \* InferenceManager
    _executor,          \* the ThreadPoolExecutor: "running" or "shutdown"
    _clients,           \* dict client_id -> ClientQueues, in insertion order
    heap,               \* the ClientQueues objects, by reference
    clock,              \* per client id, the number of timestamps drawn for it
    _stop_event,        \* threading.Event
    stop_pc,            \* position of the caller inside stop()
    \* the inference thread (_inference_loop)
    pc,                 \* its position; "none": no thread yet, "exit": thread ended
    items,              \* local: list(self._clients.items())
    idx,                \* local: position of the for loop in items
    ready_frame,        \* local
    processed_frame,    \* local
    raw_frames_data,    \* local of _flush_segment_if_needed
    processed_frames_data, \* local of _flush_segment_if_needed
    task_id,            \* local of _flush_segment_if_needed
    \* the world outside
    hls_files,          \* what the flushes wrote under <db_dir>, in order
    db,                 \* committed HLSSegment rows, in order
    \* history
    completed,          \* per ClientQueues object, its completed inferences in order
    faults,             \* task calls of the inference loop that did not succeed
    io_faults,          \* I/O calls of the flushes that have failed
    \* the lock, the pool and the callers of the facade
    _lock,              \* threading.Lock: "None", or who is inside a with block
    pool,               \* the task invocations running in the executor's threads
                        \* whose context holds a CleaningTask
    control_ops,        \* number of set_task, set_rtmp_url and remove_client calls made
    ret,                \* what the last call of get_result, get_task or status
                        \* returned, while nothing has happened since
    \* app/services/task.py
    clean_task,         \* the committed rows of table clean_task, by task_id
    task_obj,           \* the CleaningTask a caller of the task service holds
    svc_ret,            \* what the last call of the task service returned
    \* callers that run start() or submit_frame at the same time as others
    start_pc,           \* per caller of start(), its position inside start()
    other_threads,      \* the inference threads alive that self._thread no longer
                        \* refers to
    start_calls,        \* number of start() calls made by these callers
    submitting          \* the submit_frame calls that have read time.time() and
                        \* not yet appended their frame

regvars == <<_tasks, _execution_order, registry_ops>>
plvars == <<pl_pc, pl_task, tasks, futures, all_results, pl_i, result_frame,
            infer_log, tasks_at_call, visualize_log, pl_faults>>

\* the variables of a pipeline call that the inference loop does not use
plrest == <<pl_pc, pl_task, futures, pl_i, result_frame, infer_log, tasks_at_call,
            visualize_log, pl_faults>>

mgrvars == <<_clients, heap, clock, _stop_event, stop_pc>>
wvars == <<pc, items, idx, ready_frame, processed_frame, raw_frames_data,
           processed_frames_data, task_id>>
envvars == <<hls_files, db>>
histvars == <<completed, faults, io_faults>>
facvars == <<_lock, ret, pool, control_ops>>
svcvars == <<clean_task, task_obj, svc_ret>>
callvars == <<start_pc, other_threads, start_calls, submitting>>

-----------------------------------------------------------------------------
(* Bounds of the model *)

\* submit_frame calls of a run of Spec for the client "cam1" ...
MaxFrames == 12

\* ... and for the client "cam2"
MaxFramesOther == 1

\* submit_frame calls per client of a run of SpecLifecycle
MaxFramesLifecycle == 2

\* submit_frame calls of a run of SpecFacade, all for the first client
MaxFramesFacade == 2

\* set_task, set_rtmp_url and remove_client calls of a run of SpecFacade, of
\* SpecLock and of SpecClients
MaxControlOps == 1

\* submit_frame calls of a run of SpecLock, all for the first client
MaxFramesLock == 1

\* submit_frame calls of a run of SpecTask and of SpecClients, all for the
\* first client
MaxFramesTask == 1

\* set_task and remove_client calls of a run of SpecTask
MaxTaskOps == 2

\* the largest value of int(time.time()) of a run of SpecTaskService
MaxNow == 2

\* start() calls of a run of SpecStart
MaxStartCalls == 4

\* submit_frame calls per client of a run of SpecFair
MaxFramesFair == 2

\* timestamps drawn for the first client by the end of a run of SpecSubmit
MaxFramesSubmit == 11

\* register, unregister and enable_task calls of a run of SpecPipeline
MaxRegistryOps == 2

\* task calls that may fail: of one pipeline call in SpecPipeline, of a whole
\* run in Spec and SpecLifecycle
MaxFaults == 1

\* I/O calls of the flushes that may fail
MaxIoFaults == 1

-----------------------------------------------------------------------------
(* InferenceTask instances.  requires is requires_context(); ndarray says  *)
(* that the dict returned by infer carries a numpy array (processed_frame, *)
(* annotated_frame).                                                       *)

DetectionTask ==
    [name |-> "detection", enabled |-> TRUE, requires |-> <<>>, ndarray |-> TRUE]

MotionTask ==
    [name |-> "motion", enabled |-> TRUE, requires |-> <<"detection">>,
     ndarray |-> FALSE]

EndoscopeBendingDetectionTask ==
    [name |-> "endoscope_bending_detection", enabled |-> TRUE, requires |-> <<>>,
     ndarray |-> TRUE]

BubbleDetectionTask ==
    [name |-> "bubble_detection", enabled |-> TRUE, requires |-> <<>>,
     ndarray |-> FALSE]

CleanlinessTask ==
    [name |-> "cleanliness", enabled |-> TRUE,
     requires |-> <<"detection", "bubble_detection">>, ndarray |-> FALSE]

\* The tasks register_task is called with in the model.
TaskPool == {DetectionTask, MotionTask, BubbleDetectionTask, CleanlinessTask}

TaskNames == {"detection", "motion", "endoscope_bending_detection",
              "bubble_detection", "cleanliness"}

Range(s) == {s[i] : i \in 1..Len(s)}

Names(ts) == [i \in 1..Len(ts) |-> ts[i].name]

\* Position of name in the dict, 0 when it is no key.
IndexOf(ts, name) ==
    IF \E i \in 1..Len(ts) : ts[i].name = name
    THEN CHOOSE i \in 1..Len(ts) : ts[i].name = name
    ELSE 0

-----------------------------------------------------------------------------
(* with self._lock *)

\* The callers that can be inside start() at the same time.
StartCallers == {1, 2}

\* No facade call has returned since the last step.
NoCall == [op |-> "None"]

\* A step that takes no lock.
Unlocked ==
    /\ ret' = NoCall
    /\ UNCHANGED <<_lock, pool, control_ops, svcvars, callvars>>

\* Variant of a with self._lock block that does not release the lock at its end
\* (sensitivity of C17).
WithLockKept(who) ==
    /\ _lock \in {"None", who}
    /\ _lock' = who
    /\ ret' = NoCall
    /\ UNCHANGED <<pool, svcvars, callvars>>

\* A with self._lock block run to its end by who: the lock is free or already
\* taken by who, and is free afterwards.
WithLock(who) ==
    /\ _lock \in {"None", who}
    /\ _lock' = "None"
    /\ ret' = NoCall
    /\ UNCHANGED <<pool, svcvars, callvars>>

Locked(who) ==
    /\ WithLock(who)
    /\ UNCHANGED control_ops

-----------------------------------------------------------------------------
(* TaskRegistry *)

\* _recompute_execution_order: names without dependencies, then the others,
\* each group in dict order.
RecomputeExecutionOrder(ts) ==
    LET independent == SelectSeq(ts, LAMBDA t : t.requires = <<>>)
        dependent == SelectSeq(ts, LAMBDA t : t.requires # <<>>)
    IN Names(independent) \o Names(dependent)

\* Variant of the assignment that moves an existing key to the end of the dict
\* (sensitivity of C33).
DictSetMoveToEnd(ts, task) ==
    Append(SelectSeq(ts, LAMBDA t : t.name # task.name), task)

\* self._tasks[task.name] = task: an existing key keeps its position.
DictSet(ts, task) ==
    IF IndexOf(ts, task.name) # 0
    THEN [ts EXCEPT ![IndexOf(ts, task.name)] = task]
    ELSE Append(ts, task)

DictDel(ts, name) == SelectSeq(ts, LAMBDA t : t.name # name)

\* The registry after register(task): <<_tasks, _execution_order>>.
RegisterResult(ts, order, task) ==
    <<DictSet(ts, task), RecomputeExecutionOrder(DictSet(ts, task))>>

\* The registry after unregister(task_name).
UnregisterResult(ts, order, name) ==
    IF IndexOf(ts, name) # 0
    THEN <<DictDel(ts, name), RecomputeExecutionOrder(DictDel(ts, name))>>
    ELSE <<ts, order>>

\* enable_task: get_task(name), then task.enabled = enabled when it exists.
EnableResult(ts, name, enabled) ==
    IF IndexOf(ts, name) # 0
    THEN [ts EXCEPT ![IndexOf(ts, name)].enabled = enabled]
    ELSE ts

\* self._tasks[name] for a name of the order that is no key of the dict
KeyError(ts, order) == \E i \in 1..Len(order) : IndexOf(ts, order[i]) = 0

\* Variant of get_enabled_tasks that does not look at enabled (sensitivity of C7).
GetAllTasks(ts, order) ==
    LET objs == [i \in 1..Len(order) |-> ts[IndexOf(ts, order[i])]]
    IN SelectSeq(objs, LAMBDA t : TRUE)

\* get_enabled_tasks, where it raises no KeyError
GetEnabledTasks(ts, order) ==
    LET objs == [i \in 1..Len(order) |-> ts[IndexOf(ts, order[i])]]
    IN SelectSeq(objs, LAMBDA t : t.enabled)

\* _register_default_tasks
DefaultTasks == <<DetectionTask, MotionTask, EndoscopeBendingDetectionTask>>

Register(task) ==
    /\ Unlocked
    /\ registry_ops < MaxRegistryOps
    /\ _tasks' = RegisterResult(_tasks, _execution_order, task)[1]
    /\ _execution_order' = RegisterResult(_tasks, _execution_order, task)[2]
    /\ registry_ops' = registry_ops + 1
    /\ UNCHANGED <<plvars, _executor, mgrvars, wvars, envvars, histvars>>

Unregister(name) ==
    /\ Unlocked
    /\ registry_ops < MaxRegistryOps
    /\ _tasks' = UnregisterResult(_tasks, _execution_order, name)[1]
    /\ _execution_order' = UnregisterResult(_tasks, _execution_order, name)[2]
    /\ registry_ops' = registry_ops + 1
    /\ UNCHANGED <<plvars, _executor, mgrvars, wvars, envvars, histvars>>

EnableTask(name, enabled) ==
    /\ Unlocked
    /\ registry_ops < MaxRegistryOps
    /\ _tasks' = EnableResult(_tasks, name, enabled)
    /\ registry_ops' = registry_ops + 1
    /\ UNCHANGED <<_execution_order, plvars, _executor, mgrvars, wvars, envvars,
                   histvars>>

-----------------------------------------------------------------------------
(* _execute_inference_pipeline *)

\* What an infer call does: return a dict with success True ("ok") or with
\* success False ("fail"), or raise ("raise"); future.result(timeout=5.0) can
\* also raise TimeoutError ("timeout").
InferOutcomes == {"ok", "fail", "raise"}

FutureOutcomes == InferOutcomes \cup {"timeout"}

VisualizeOutcomes == {"ok", "raise"}

\* str(e) of the exception an outcome raises
Str(o) == IF o = "raise" THEN "infer raised" ELSE ""

\* The dict a task's infer returns.
TaskReturn(t, o) ==
    [success |-> (o = "ok"),
     error |-> IF o = "ok" THEN "" ELSE "task error",
     ndarray |-> t.ndarray]

\* The dict of the except branches of the pipeline.
ExceptResult(o) == [success |-> FALSE, error |-> Str(o), ndarray |-> FALSE]

EmptyDict == [n \in {} |-> 0]

DictPut(d, k, v) == [x \in DOMAIN d \cup {k} |-> IF x = k THEN v ELSE d[x]]

\* try: all_results[name] = future.result() / infer(...); except: the failure dict
TryResult(res, t, o) ==
    DictPut(res, t.name, IF o \in {"ok", "fail"} THEN TaskReturn(t, o) ELSE ExceptResult(o))

IndependentTasks(ts) == SelectSeq(ts, LAMBDA t : t.requires = <<>>)

\* Variant of the dependent tasks in the reverse of their order (sensitivity of
\* C32).
DependentTasksReversed(ts) ==
    LET d == SelectSeq(ts, LAMBDA t : t.requires # <<>>)
    IN [i \in 1..Len(d) |-> d[Len(d) + 1 - i]]

DependentTasks(ts) == SelectSeq(ts, LAMBDA t : t.requires # <<>>)

\* task.visualize(frame, result): detection and bending return the frame stored
\* in their result, the others draw onto the frame they are given.
Visualize(t, frame) == IF t.ndarray THEN <<t.name>> ELSE Append(frame, t.name)

\* One iteration of the composition loop; v is what visualize does.
TryVisualize(frame, res, t, v) ==
    IF t.name \in DOMAIN res /\ res[t.name].success /\ v = "ok"
    THEN Visualize(t, frame)
    ELSE frame

\* class Task(BaseModel): the declared fields
TaskFields == {"task_id", "current_step", "status", "updated_at", "fully_submerged",
               "bending", "bubble_detected"}

\* info_text = f"Task ID: {task.task_id} | Bending: {task.bending_count}" when a
\* CleaningTask is bound: reading an attribute that is no field of the model
\* raises AttributeError, which nothing in the call catches.
TaskInfoRaises(task) == task # 0 /\ "bending_count" \notin TaskFields

\* cv2.putText of the task information when a CleaningTask is bound
PutTaskInfo(frame, task) == IF task # 0 THEN Append(frame, "task_info") ELSE frame

CleaningTasks == {0, 1}

PipelineIdle == pl_pc \in {"idle", "done", "raised"}

\* Entry of the call up to the end of the submit loop.
PipelineStart(task) ==
    /\ Unlocked
    /\ PipelineIdle
    /\ pl_task' = task
    /\ all_results' = EmptyDict
    /\ result_frame' = <<>>
    /\ visualize_log' = <<>>
    /\ pl_faults' = 0
    /\ pl_i' = 1
    /\ tasks_at_call' = _tasks
    /\ IF KeyError(_tasks, _execution_order)
       THEN /\ pl_pc' = "raised"
            /\ tasks' = <<>>
            /\ futures' = <<>>
            /\ infer_log' = <<>>
       ELSE LET ts == GetEnabledTasks(_tasks, _execution_order) IN
              /\ tasks' = ts
              /\ IF IndependentTasks(ts) # <<>> /\ _executor = "shutdown"
                 THEN \* executor.submit raises RuntimeError
                      /\ pl_pc' = "raised"
                      /\ futures' = <<>>
                      /\ infer_log' = <<>>
                 ELSE /\ pl_pc' = "collect"
                      /\ futures' = IndependentTasks(ts)
                      /\ infer_log' = [i \in 1..Len(IndependentTasks(ts)) |->
                                         [name |-> IndependentTasks(ts)[i].name,
                                          results |-> {}, outcome |-> "running"]]
    /\ UNCHANGED <<regvars, _executor,
                   mgrvars, wvars, envvars, histvars>>

OutcomeAllowed(o) == o = "ok" \/ pl_faults < MaxFaults

\* for future, inference_task in futures.items(): one iteration
PipelineCollect ==
    /\ Unlocked
    /\ pl_pc = "collect"
    /\ pl_i <= Len(futures)
    /\ \E o \in FutureOutcomes :
         /\ OutcomeAllowed(o)
         /\ all_results' = TryResult(all_results, futures[pl_i], o)
         /\ infer_log' = [infer_log EXCEPT ![pl_i].outcome = o]
         /\ pl_faults' = pl_faults + (IF o = "ok" THEN 0 ELSE 1)
    /\ pl_i' = pl_i + 1
    /\ UNCHANGED <<pl_pc, pl_task, tasks, futures, result_frame, tasks_at_call,
                   visualize_log, regvars, _executor,
                   mgrvars, wvars, envvars, histvars>>

\* for inference_task in dependent_tasks: one iteration
PipelineSerial ==
    /\ Unlocked
    /\ pl_pc = "serial"
    /\ pl_i <= Len(DependentTasks(tasks))
    /\ LET t == DependentTasks(tasks)[pl_i] IN
         /\ \E o \in InferOutcomes :
              /\ OutcomeAllowed(o)
              /\ infer_log' = Append(infer_log, [name |-> t.name,
                                                 results |-> DOMAIN all_results,
                                                 outcome |-> o])
              /\ all_results' = TryResult(all_results, t, o)
              /\ pl_faults' = pl_faults + (IF o = "ok" THEN 0 ELSE 1)
    /\ pl_i' = pl_i + 1
    /\ UNCHANGED <<pl_pc, pl_task, tasks, futures, result_frame, visualize_log,
                   tasks_at_call, regvars, _executor,
                   mgrvars, wvars, envvars, histvars>>

\* for inference_task in tasks: one iteration of the composition
PipelineVisualize ==
    /\ Unlocked
    /\ pl_pc = "visualize"
    /\ pl_i <= Len(tasks)
    /\ LET t == tasks[pl_i] IN
         IF t.name \in DOMAIN all_results /\ all_results[t.name].success
         THEN /\ visualize_log' = Append(visualize_log, t.name)
              /\ \E v \in VisualizeOutcomes :
                   /\ OutcomeAllowed(v)
                   /\ result_frame' = TryVisualize(result_frame, all_results, t, v)
                   /\ pl_faults' = pl_faults + (IF v = "ok" THEN 0 ELSE 1)
         ELSE UNCHANGED <<visualize_log, result_frame, pl_faults>>
    /\ pl_i' = pl_i + 1
    /\ UNCHANGED <<pl_pc, pl_task, tasks, futures, all_results, infer_log,
                   tasks_at_call,
                   regvars, _executor,
                   mgrvars, wvars, envvars, histvars>>

\* The end of one loop of the call: on to the next phase, at last the return.
PipelinePhaseEnd ==
    /\ Unlocked
    /\ \/ /\ pl_pc = "collect" /\ pl_i > Len(futures)
          /\ pl_pc' = "serial"
          /\ result_frame' = result_frame
       \/ /\ pl_pc = "serial" /\ pl_i > Len(DependentTasks(tasks))
          /\ pl_pc' = "visualize"
          /\ result_frame' = result_frame
       \/ /\ pl_pc = "visualize" /\ pl_i > Len(tasks)
          /\ pl_pc' = IF TaskInfoRaises(pl_task) THEN "raised" ELSE "done"
          /\ result_frame' = IF TaskInfoRaises(pl_task) THEN result_frame
                              ELSE PutTaskInfo(result_frame, pl_task)
    /\ pl_i' = 1
    /\ UNCHANGED <<pl_task, tasks, futures, all_results, infer_log, tasks_at_call,
                   visualize_log,
                   pl_faults, regvars, _executor,
                   mgrvars, wvars, envvars, histvars>>

InitRegistry ==
    /\ _tasks = DefaultTasks
    /\ _execution_order = RecomputeExecutionOrder(DefaultTasks)
    /\ registry_ops = 0

InitPipeline ==
    /\ pl_pc = "idle"
    /\ pl_task = 0
    /\ tasks = <<>>
    /\ futures = <<>>
    /\ all_results = EmptyDict
    /\ pl_i = 1
    /\ result_frame = <<>>
    /\ infer_log = <<>>
    /\ tasks_at_call = <<>>
    /\ visualize_log = <<>>
    /\ pl_faults = 0

-----------------------------------------------------------------------------
(* InferenceManager: construction and the facade *)

ClientIds == {"cam1", "cam2"}

\* How many submit_frame calls a run of Spec makes for a client id.
Quota(c) == IF c = "cam1" THEN MaxFrames ELSE MaxFramesOther

ObjIds == 1..(2 * Cardinality(ClientIds))

Max(a, b) == IF a >= b THEN a ELSE b

Min(a, b) == IF a <= b THEN a ELSE b

\* InferenceManager(rt_fps, ca_segment_seconds): the arguments of the modelled manager
rt_fps == 1

ca_segment_seconds == 5

_rt_maxlen == Max(5, rt_fps)

_ca_segment_len == Max(10, rt_fps * ca_segment_seconds)

\* FrameData(timestamp, frame, inference_result).  inference_result is kept as
\* what the flush reads of it: "ndarray" when some task's dict in it carries a
\* numpy array, "plain" when none does, "None" for a frame that was never inferred.
FrameData(timestamp, frame, inference_result) ==
    [timestamp |-> timestamp, frame |-> frame, keypoints |-> "None",
     inference_result |-> inference_result]

\* Python's None where a FrameData is expected
NoFrame == FrameData(0, "None", "None")

\* ClientQueues.__init__
ClientQueues ==
    [ca_ready |-> <<>>, ca_raw |-> <<>>, ca_processed |-> <<>>, rt_processed |-> <<>>,
     ca_segment_len |-> _ca_segment_len, latest_processed |-> NoFrame,
     task |-> 0, rtmp_url |-> "None"]

\* Variant of the real-time queue without maxlen (sensitivity of C2).
RtAppendUnbounded(q, x) == Append(q, x)

\* deque(maxlen=rt_maxlen).append
RtAppend(q, x) == IF Len(q) >= _rt_maxlen THEN Append(Tail(q), x) ELSE Append(q, x)

ClientIndex(cl, c) ==
    IF \E i \in 1..Len(cl) : cl[i].id = c
    THEN CHOOSE i \in 1..Len(cl) : cl[i].id = c
    ELSE 0

HasClient(c) == ClientIndex(_clients, c) # 0

Ref(c) == _clients[ClientIndex(_clients, c)].ref

FreshRef == CHOOSE o \in ObjIds \ DOMAIN heap : \A q \in ObjIds \ DOMAIN heap : o <= q

\* Variant of _get_or_create_client that never finds the client (sensitivity of C1).
GetOrCreateAlways(c) ==
    <<Append(_clients, [id |-> c, ref |-> FreshRef]),
      DictPut(heap, FreshRef, ClientQueues),
      FreshRef>>

\* _get_or_create_client: <<the dict, the heap, the reference of client_id>>
GetOrCreateClient(c) ==
    IF HasClient(c)
    THEN <<_clients, heap, Ref(c)>>
    ELSE <<Append(_clients, [id |-> c, ref |-> FreshRef]),
           DictPut(heap, FreshRef, ClientQueues),
           FreshRef>>

\* The references the program still holds: the dict's and the loop's snapshot.
LiveRefs(cl, its) == {cl[i].ref : i \in 1..Len(cl)} \cup {its[i].ref : i \in 1..Len(its)}

Restrict(f, S) == [x \in DOMAIN f \cap S |-> f[x]]

Stopped == pc \in {"none", "exit"}

\* submit_frame(client_id, frame)
SubmitFrame(c) ==
    /\ Locked("facade")
    /\ clock' = [clock EXCEPT ![c] = @ + 1]
    /\ LET g == GetOrCreateClient(c)
           frame_data == FrameData(clock[c] + 1, "raw", "None")
       IN /\ _clients' = g[1]
          /\ heap' = [g[2] EXCEPT ![g[3]].ca_ready = Append(@, frame_data)]
          /\ completed' = IF g[3] \in DOMAIN completed THEN completed
                          ELSE DictPut(completed, g[3], <<>>)
    /\ UNCHANGED <<_stop_event, stop_pc, wvars, envvars, faults, io_faults,
                   regvars, plvars, _executor>>

\* The callers that can be inside submit_frame at the same time.
SubmitCallers == {1, 2}

\* submit_frame up to its with block: now = time.time(),
\* frame_data = FrameData(timestamp=now, frame=frame)
SubmitFrameNow(k, c) ==
    /\ \A s \in submitting : s.caller # k
    /\ clock' = [clock EXCEPT ![c] = @ + 1]
    /\ submitting' = submitting \cup
                        {[caller |-> k, client_id |-> c,
                          frame_data |-> FrameData(clock[c] + 1, "raw", "None")]}
    /\ ret' = NoCall
    /\ UNCHANGED <<regvars, plvars, _executor, _clients, heap, _stop_event, stop_pc,
                   wvars, envvars, histvars, _lock, pool, control_ops, svcvars,
                   start_pc, other_threads, start_calls>>

\* submit_frame, its with block: the client's queues, created when missing, get
\* the record at the tail of ca_ready
SubmitFrameAppend(k) ==
    /\ _lock = "None"
    /\ \E s \in submitting :
         /\ s.caller = k
         /\ submitting' = submitting \ {s}
         /\ LET g == GetOrCreateClient(s.client_id)
            IN /\ _clients' = g[1]
               /\ heap' = [g[2] EXCEPT ![g[3]].ca_ready = Append(@, s.frame_data)]
               /\ completed' = IF g[3] \in DOMAIN completed THEN completed
                               ELSE DictPut(completed, g[3], <<>>)
    /\ ret' = NoCall
    /\ UNCHANGED <<regvars, plvars, _executor, clock, _stop_event, stop_pc, wvars,
                   envvars, faults, io_faults, _lock, pool, control_ops, svcvars,
                   start_pc, other_threads, start_calls>>

\* status()
Status ==
    [clients |-> Len(_clients),
     queues |-> [c \in {_clients[i].id : i \in 1..Len(_clients)} |->
                   [ca_ready |-> Len(heap[Ref(c)].ca_ready),
                    ca_raw |-> Len(heap[Ref(c)].ca_raw),
                    ca_processed |-> Len(heap[Ref(c)].ca_processed),
                    rt_processed |-> Len(heap[Ref(c)].rt_processed),
                    rtmp_url |-> heap[Ref(c)].rtmp_url]]]

\* dict.pop(client_id, None)
DictPop(cl, c) == SelectSeq(cl, LAMBDA e : e.id # c)

\* The history of the results starts with the object.
Track(h, o) == IF o \in DOMAIN h THEN h ELSE DictPut(h, o, <<>>)

\* remove_client(client_id); the object lives on while the loop's snapshot
\* holds it
RemoveClient(c) ==
    /\ WithLock("facade")
    /\ _clients' = DictPop(_clients, c)
    /\ heap' = Restrict(heap, LiveRefs(DictPop(_clients, c), items))
    /\ completed' = Restrict(completed, LiveRefs(DictPop(_clients, c), items))
    /\ control_ops' = control_ops + 1
    /\ UNCHANGED <<clock, _stop_event, stop_pc, wvars, envvars, faults, io_faults,
                   regvars, plvars, _executor>>

\* Variant of set_task that assigns only a task that is not None
\* (sensitivity of C24).
SetTaskNoDetach(c, task) ==
    /\ WithLock("facade")
    /\ LET g == GetOrCreateClient(c)
       IN /\ _clients' = g[1]
          /\ heap' = IF task # 0 THEN [g[2] EXCEPT ![g[3]].task = task] ELSE g[2]
          /\ completed' = Track(completed, g[3])
    /\ control_ops' = control_ops + 1
    /\ UNCHANGED <<clock, _stop_event, stop_pc, wvars, envvars, faults, io_faults,
                   regvars, plvars, _executor>>

\* set_task(client_id, task)
SetTask(c, task) ==
    /\ WithLock("facade")
    /\ LET g == GetOrCreateClient(c)
       IN /\ _clients' = g[1]
          /\ heap' = [g[2] EXCEPT ![g[3]].task = task]
          /\ completed' = Track(completed, g[3])
    /\ control_ops' = control_ops + 1
    /\ UNCHANGED <<clock, _stop_event, stop_pc, wvars, envvars, faults, io_faults,
                   regvars, plvars, _executor>>

RtmpUrls == {"rtmp://localhost:1935/live/stream"}

\* set_rtmp_url(client_id, rtmp_url)
SetRtmpUrl(c, rtmp_url) ==
    /\ WithLock("facade")
    /\ LET g == GetOrCreateClient(c)
       IN /\ _clients' = g[1]
          /\ heap' = [g[2] EXCEPT ![g[3]].rtmp_url = rtmp_url]
          /\ completed' = Track(completed, g[3])
    /\ control_ops' = control_ops + 1
    /\ UNCHANGED <<clock, _stop_event, stop_pc, wvars, envvars, faults, io_faults,
                   regvars, plvars, _executor>>

\* Variant of get_result that returns the oldest record of the real-time queue
\* (sensitivity of C14).
GetResultOldest(c) ==
    IF ~ HasClient(c) THEN NoFrame
    ELSE LET q == heap[Ref(c)]
         IN IF q.rt_processed # <<>> THEN q.rt_processed[1] ELSE q.latest_processed

\* get_result(client_id, as_model=False): the value returned
GetResult(c) ==
    IF ~ HasClient(c) THEN NoFrame
    ELSE LET q == heap[Ref(c)]
         IN IF q.rt_processed # <<>> THEN q.rt_processed[Len(q.rt_processed)]
            ELSE q.latest_processed

\* get_task(client_id): the value returned
GetTask(c) == IF HasClient(c) THEN heap[Ref(c)].task ELSE 0

\* A call that takes the lock, reads and returns.
Returns(op, arg, value) ==
    /\ _lock \in {"None", "facade"}
    /\ _lock' = "None"
    /\ ret' = [op |-> op, arg |-> arg, value |-> value]
    /\ UNCHANGED <<regvars, plvars, _executor, mgrvars, wvars, envvars, histvars,
                   pool, control_ops, svcvars, callvars>>

GetResultCall(c) ==
    /\ c \in ClientIds
    /\ Returns("get_result", c, GetResult(c))

\* Variant of get_task that looks the client up with _get_or_create_client
\* (sensitivity of C23).
GetTaskCallCreating(c) ==
    /\ c \in ClientIds
    /\ _lock \in {"None", "facade"}
    /\ _lock' = "None"
    /\ ret' = [op |-> "get_task", arg |-> c, value |-> GetTask(c)]
    /\ _clients' = GetOrCreateClient(c)[1]
    /\ heap' = GetOrCreateClient(c)[2]
    /\ completed' = Track(completed, GetOrCreateClient(c)[3])
    /\ UNCHANGED <<regvars, plvars, _executor, clock, _stop_event, stop_pc, wvars,
                   envvars, faults, io_faults, pool, control_ops, svcvars, callvars>>

GetTaskCall(c) ==
    /\ c \in ClientIds
    /\ Returns("get_task", c, GetTask(c))

\* Variant of status() that empties the real-time queues it has counted
\* (sensitivity of C15).
StatusCallDraining ==
    /\ _lock \in {"None", "facade"}
    /\ _lock' = "None"
    /\ ret' = [op |-> "status", arg |-> "None", value |-> Status]
    /\ heap' = [o \in DOMAIN heap |-> [heap[o] EXCEPT !.rt_processed = <<>>]]
    /\ UNCHANGED <<regvars, plvars, _executor, _clients, clock, _stop_event, stop_pc,
                   wvars, envvars, histvars, pool, control_ops, svcvars, callvars>>

StatusCall ==
    /\ TRUE
    /\ Returns("status", "None", Status)

\* A caller of the facade enters with self._lock.
F_Acquire ==
    /\ _lock = "None"
    /\ _lock' = "facade"
    /\ UNCHANGED <<regvars, plvars, _executor, mgrvars, wvars, envvars, histvars,
                   pool, ret, control_ops, svcvars, callvars>>

-----------------------------------------------------------------------------
(* start() and stop() *)

\* start(): a new thread unless one is alive
Start ==
    /\ Unlocked
    /\ stop_pc = "idle"
    /\ Stopped
    /\ _stop_event' = FALSE
    /\ pc' = "loop"
    /\ UNCHANGED <<_clients, heap, clock, stop_pc, items, idx, ready_frame,
                   processed_frame, raw_frames_data, processed_frames_data, task_id,
                   envvars, histvars, regvars, plvars, _executor>>

\* The positions at which the thread can stay for the second that join waits:
\* inside task calls and inside the file and database work of a flush.
SlowPcs == {"infer", "write_raw", "write_processed", "keypoints", "raw_playlist",
            "processed_playlist", "db"}

\* stop(): self._stop_event.set()
StopSet ==
    /\ Unlocked
    /\ stop_pc = "idle"
    /\ _stop_event' = TRUE
    /\ stop_pc' = IF pc = "none" THEN "shutdown" ELSE "join"
    /\ UNCHANGED <<_clients, heap, clock, wvars, envvars, histvars, regvars, plvars,
                   _executor>>

\* stop(): self._thread.join(timeout=1.0) returns
StopJoin ==
    /\ Unlocked
    /\ stop_pc = "join"
    /\ pc = "exit" \/ pc \in SlowPcs
    /\ stop_pc' = "shutdown"
    /\ UNCHANGED <<_clients, heap, clock, _stop_event, wvars, envvars, histvars,
                   regvars, plvars, _executor>>

\* Variant of the shutdown that fails on an executor that is already shut down
\* (sensitivity of C19).
StopShutdownOnce ==
    /\ Unlocked
    /\ stop_pc = "shutdown"
    /\ pool = {}
    /\ _executor' = IF _executor = "shutdown" THEN "RuntimeError" ELSE "shutdown"
    /\ stop_pc' = "idle"
    /\ UNCHANGED <<_clients, heap, clock, _stop_event, wvars, envvars, histvars,
                   regvars, plvars>>

\* stop(): self._executor.shutdown(wait=True, cancel_futures=True), which
\* returns when the calls running in the pool have returned
StopShutdown ==
    /\ Unlocked
    /\ stop_pc = "shutdown"
    /\ pool = {}
    /\ _executor' = "shutdown"
    /\ stop_pc' = "idle"
    /\ UNCHANGED <<_clients, heap, clock, _stop_event, wvars, envvars, histvars,
                   regvars, plvars>>

\* start() up to the test, by one of several callers:
\* if self._thread is None or not self._thread.is_alive()
StartCheck(k) ==
    /\ start_pc[k] = "idle"
    /\ start_calls < MaxStartCalls
    /\ start_calls' = start_calls + 1
    /\ start_pc' = [start_pc EXCEPT ![k] = IF Stopped THEN "create" ELSE "idle"]
    /\ ret' = NoCall
    /\ UNCHANGED <<regvars, plvars, _executor, mgrvars, wvars, envvars, histvars,
                   _lock, pool, control_ops, svcvars, other_threads, submitting>>

\* start() behind the test: self._stop_event.clear(), self._thread = Thread(...),
\* self._thread.start().  A thread that another caller has started since the
\* test goes on running its loop; self._thread refers to the new one.
StartCreate(k) ==
    /\ start_pc[k] = "create"
    /\ start_pc' = [start_pc EXCEPT ![k] = "idle"]
    /\ _stop_event' = FALSE
    /\ other_threads' = IF Stopped THEN other_threads ELSE other_threads + 1
    /\ pc' = "loop"
    /\ items' = <<>>
    /\ idx' = 1
    /\ ret' = NoCall
    /\ UNCHANGED <<regvars, plvars, _executor, _clients, heap, clock, stop_pc,
                   ready_frame, processed_frame, raw_frames_data,
                   processed_frames_data, task_id, envvars, histvars, _lock, pool,
                   control_ops, svcvars, start_calls, submitting>>

\* A thread that self._thread no longer refers to leaves its loop:
\* while not self._stop_event.is_set()
OtherThreadExit ==
    /\ other_threads > 0
    /\ _stop_event
    /\ other_threads' = other_threads - 1
    /\ ret' = NoCall
    /\ UNCHANGED <<regvars, plvars, _executor, mgrvars, wvars, envvars, histvars,
                   _lock, pool, control_ops, svcvars, start_pc, start_calls,
                   submitting>>


-----------------------------------------------------------------------------
(* _inference_loop *)

cur == items[idx].ref

client_id == items[idx].id

\* the end of one iteration of the for loop (continue)
Continue ==
    /\ idx' = idx + 1
    /\ pc' = "check"
    /\ ready_frame' = NoFrame
    /\ processed_frame' = NoFrame
    /\ raw_frames_data' = <<>>
    /\ processed_frames_data' = <<>>
    /\ task_id' = "None"
    /\ tasks' = <<>>
    /\ all_results' = EmptyDict

\* Variant in which the exception is not caught and ends the thread
\* (sensitivity of C20).
Uncaught ==
    /\ idx' = idx
    /\ pc' = "exit"
    /\ ready_frame' = NoFrame
    /\ processed_frame' = NoFrame
    /\ raw_frames_data' = <<>>
    /\ processed_frames_data' = <<>>
    /\ task_id' = "None"
    /\ tasks' = <<>>
    /\ all_results' = EmptyDict

\* except Exception as e: print(...), after the pipeline call and after the
\* flush: the for loop goes on with the next client
Caught == Continue

\* while not self._stop_event.is_set(): items = list(self._clients.items())
W_Loop ==
    /\ pc = "loop"
    /\ IF _stop_event /\ _lock # "worker"
       THEN /\ pc' = "exit"
            /\ items' = <<>>
            /\ idx' = 1
            /\ Unlocked
       ELSE /\ items' = _clients
            /\ idx' = 1
            /\ pc' = IF _clients = <<>> THEN "loop" ELSE "check"
            /\ Locked("worker")
    /\ heap' = Restrict(heap, LiveRefs(_clients, items'))
    /\ completed' = Restrict(completed, LiveRefs(_clients, items'))
    /\ UNCHANGED <<_clients, clock, _stop_event, stop_pc, ready_frame, processed_frame,
                   raw_frames_data, processed_frames_data, task_id, envvars, faults, io_faults,
                   regvars, plvars, _executor>>

\* for client_id, client_queues in items: if self._stop_event.is_set(): break
W_Check ==
    /\ Unlocked
    /\ pc = "check"
    /\ pc' = IF idx > Len(items) \/ _stop_event THEN "loop" ELSE "pop"
    /\ UNCHANGED <<mgrvars, items, idx, ready_frame, processed_frame, raw_frames_data,
                   processed_frames_data, task_id, envvars, histvars, regvars, plvars, _executor>>

\* Variant of popleft that takes the newest element (sensitivity of C11).
PopRight(q) == <<q[Len(q)], SubSeq(q, 1, Len(q) - 1)>>

\* deque.popleft(): <<the element, the rest>>
PopLeft(q) == <<Head(q), Tail(q)>>

\* ready_frame = client_queues.ca_ready.popleft() if client_queues.ca_ready else None
W_Pop ==
    /\ Locked("worker")
    /\ pc = "pop"
    /\ IF heap[cur].ca_ready = <<>>
       THEN /\ Continue
            /\ UNCHANGED <<heap, items>>
       ELSE /\ ready_frame' = PopLeft(heap[cur].ca_ready)[1]
            /\ heap' = [heap EXCEPT ![cur].ca_ready = PopLeft(@)[2]]
            /\ pc' = "append_raw"
            /\ UNCHANGED <<items, idx, processed_frame, raw_frames_data,
                           processed_frames_data, task_id, tasks, all_results>>
    /\ UNCHANGED <<_clients, clock, _stop_event, stop_pc, envvars, histvars, regvars,
                   plrest, _executor>>

\* client_queues.ca_raw.append(ready_frame)
W_AppendRaw ==
    /\ Locked("worker")
    /\ pc = "append_raw"
    /\ heap' = [heap EXCEPT ![cur].ca_raw = Append(@, ready_frame)]
    /\ pc' = "submit"
    /\ UNCHANGED <<_clients, clock, _stop_event, stop_pc, items, idx, ready_frame,
                   processed_frame, raw_frames_data, processed_frames_data, task_id, envvars,
                   histvars, regvars, plvars, _executor>>

\* Whether _execute_inference_pipeline raises before any task result is awaited.
PipelineRaises(ts, order, executor) ==
    \/ KeyError(ts, order)
    \/ /\ ~ KeyError(ts, order)
       /\ IndependentTasks(GetEnabledTasks(ts, order)) # <<>>
       /\ executor = "shutdown"

\* The tasks whose infer writes to the CleaningTask of its context:
\* task.bending_count += 1, current_task.updated_at = ...
MutatesTask == {"endoscope_bending_detection", "motion"}

\* An infer call handed to the executor: its task, and the context's CleaningTask
\* and frame.
Invocation(t) ==
    [name |-> t.name, task |-> heap[cur].task, id |-> client_id,
     ts |-> ready_frame.timestamp]

\* self._executor.submit(inference_task.infer, frame, context) for each
\* independent task, as far as the context holds a CleaningTask
Submitted(ts) ==
    IF heap[cur].task = 0 THEN {}
    ELSE {Invocation(t) : t \in Range(IndependentTasks(ts))}

\* _execute_inference_pipeline(frame, client_queues.task) up to the end of the
\* submit loop; an exception is caught by the loop, which goes on with the next
\* client.
W_Submit ==
    /\ pc = "submit"
    /\ ret' = NoCall
    /\ UNCHANGED <<_lock, control_ops, svcvars, callvars>>
    /\ IF PipelineRaises(_tasks, _execution_order, _executor)
       THEN /\ Caught
            /\ UNCHANGED pool
       ELSE /\ tasks' = GetEnabledTasks(_tasks, _execution_order)
            /\ pool' = pool \cup Submitted(GetEnabledTasks(_tasks, _execution_order))
            /\ pc' = "infer"
            /\ UNCHANGED <<idx, ready_frame, processed_frame, raw_frames_data,
                           processed_frames_data, task_id, all_results>>
    /\ pl_task' = heap[cur].task
    /\ UNCHANGED <<mgrvars, items, envvars, histvars, regvars, pl_pc, futures, pl_i,
                   result_frame, infer_log, tasks_at_call, visualize_log, pl_faults,
                   _executor>>

RECURSIVE RunTasks(_, _, _, _)
\* The loop over futures and the loop over dependent_tasks, oc giving what each
\* task's call does.
RunTasks(res, ts, oc, i) ==
    IF i > Len(ts) THEN res
    ELSE RunTasks(TryResult(res, ts[i], oc[ts[i].name]), ts, oc, i + 1)

\* all_results of a pipeline call that got past the submit loop
PipelineResults(ts, oc) ==
    RunTasks(RunTasks(EmptyDict, IndependentTasks(ts), oc, 1), DependentTasks(ts), oc, 1)

\* What the model lets the tasks of one frame do.
OutcomeChoices(ts) ==
    {oc \in [Range(Names(ts)) -> FutureOutcomes] :
        /\ \A i \in 1..Len(ts) : ts[i].requires # <<>> => oc[ts[i].name] \in InferOutcomes
        /\ Cardinality({n \in DOMAIN oc : oc[n] # "ok"}) <= MaxFaults - faults}

NFaults(oc) == Cardinality({n \in DOMAIN oc : oc[n] # "ok"})

ResultKind(res) ==
    IF \E n \in DOMAIN res : res[n].ndarray THEN "ndarray" ELSE "plain"

\* the rest of _execute_inference_pipeline, which raises at its end when a
\* CleaningTask is bound, and
\* processed_frame = FrameData(timestamp=ts, frame=final_frame, inference_result=all_results)
W_Infer ==
    /\ pc = "infer"
    /\ ret' = NoCall
    /\ UNCHANGED <<_lock, control_ops, svcvars, callvars>>
    /\ \E oc \in OutcomeChoices(tasks) :
         /\ pool' = pool \ {inv \in pool : /\ inv.id = client_id
                                           /\ inv.ts = ready_frame.timestamp
                                           /\ oc[inv.name] # "timeout"}
         /\ faults' = faults + NFaults(oc)
         /\ IF TaskInfoRaises(pl_task)
            THEN Caught
            ELSE /\ all_results' = PipelineResults(tasks, oc)
                 /\ processed_frame' = FrameData(ready_frame.timestamp, "processed",
                                                 ResultKind(PipelineResults(tasks, oc)))
                 /\ pc' = "append_processed"
                 /\ UNCHANGED <<idx, ready_frame, raw_frames_data,
                                processed_frames_data, task_id, tasks>>
    /\ UNCHANGED <<mgrvars, items, envvars, completed, io_faults, regvars, plrest,
                   _executor>>

\* Variant of the three writes that leaves latest_processed as it is
\* (sensitivity of C13).
AppendProcessedNoLatest(q, frame) ==
    [q EXCEPT !.ca_processed = Append(@, frame),
              !.rt_processed = RtAppend(@, frame)]

\* with self._lock: the three writes of the result
AppendProcessed(q, frame) ==
    [q EXCEPT !.ca_processed = Append(@, frame),
              !.rt_processed = RtAppend(@, frame),
              !.latest_processed = frame]

W_AppendProcessed ==
    /\ Locked("worker")
    /\ pc = "append_processed"
    /\ heap' = [heap EXCEPT ![cur] = AppendProcessed(@, processed_frame)]
    /\ completed' = [completed EXCEPT ![cur] = Append(@, processed_frame)]
    /\ pc' = "flush"
    /\ UNCHANGED <<_clients, clock, _stop_event, stop_pc, items, idx, ready_frame,
                   processed_frame, raw_frames_data, processed_frames_data, task_id, envvars,
                   faults, io_faults, regvars, plvars, _executor>>


\* The positions of the loop at a with self._lock statement.
LockPcs == {"loop", "pop", "append_raw", "append_processed"}

\* The loop enters with self._lock.
W_Acquire ==
    /\ pc \in LockPcs
    /\ pc = "loop" => ~ _stop_event
    /\ _lock = "None"
    /\ _lock' = "worker"
    /\ UNCHANGED <<regvars, plvars, _executor, mgrvars, wvars, envvars, histvars,
                   pool, ret, control_ops, svcvars, callvars>>

\* An infer call that future.result(timeout=5.0) gave up on returns.
PoolFinish ==
    /\ \E inv \in pool :
         /\ ~ (pc = "infer" /\ inv.id = client_id /\ inv.ts = ready_frame.timestamp)
         /\ pool' = pool \ {inv}
    /\ ret' = NoCall
    /\ UNCHANGED <<regvars, plvars, _executor, mgrvars, wvars, envvars, histvars,
                   _lock, control_ops, svcvars, callvars>>

-----------------------------------------------------------------------------
(* _flush_segment_if_needed *)

\* An I/O call either works or, while the model's budget lasts, fails.
IoOutcomes == IF io_faults < MaxIoFaults THEN {"ok", "fail"} ELSE {"ok"}

IoCount(o) == IF o = "ok" THEN io_faults ELSE io_faults + 1

\* Variant of the threshold check with > for >= (sensitivity of C3).
GuardStrict(q) ==
    ~ (Len(q.ca_raw) <= q.ca_segment_len \/ Len(q.ca_processed) <= q.ca_segment_len)

\* Variant of take that empties the queue (sensitivity of C4).
TakeAll(seg_len, q) == Len(q)

\* take = min(seg_len, len(queue))
Take(seg_len, q) == Min(seg_len, Len(q))

\* if len(ca_raw) < seg_len or len(ca_processed) < seg_len: return
GuardHolds(q) ==
    ~ (Len(q.ca_raw) < q.ca_segment_len \/ Len(q.ca_processed) < q.ca_segment_len)

\* task_id = client_queues.task.task_id if client_queues.task else "no_task"
TaskId(q) == IF q.task # 0 THEN q.task ELSE "no_task"

start_ts == processed_frames_data[1].timestamp

end_ts == processed_frames_data[Len(processed_frames_data)].timestamp

File(kind) == [kind |-> kind, client_id |-> client_id, start_ts |-> start_ts]

HLSSegment(kind) ==
    [client_id |-> client_id, task_id |-> task_id, segment_path |-> kind,
     start_ts |-> start_ts, end_ts |-> end_ts]

\* The keypoints path a reader gets from a row of hls_segments: the table has
\* no such column and the flush passes none to HLSSegment(...).
KeypointsPath(r) ==
    IF "keypoints_path" \in DOMAIN r THEN r.keypoints_path ELSE "None"

\* the threshold check; a flush that goes on reads the id of the client's task
\* and is at hls_dir.mkdir next
W_Flush ==
    /\ Unlocked
    /\ pc = "flush"
    /\ IF GuardHolds(heap[cur])
       THEN /\ pc' = "mkdir"
            /\ task_id' = TaskId(heap[cur])
            /\ UNCHANGED <<idx, ready_frame, processed_frame, raw_frames_data,
                           processed_frames_data, tasks, all_results>>
       ELSE Continue
    /\ UNCHANGED <<mgrvars, items, envvars, histvars, regvars, plrest, _executor>>

\* hls_dir.mkdir(parents=True, exist_ok=True)
W_Mkdir ==
    /\ Unlocked
    /\ pc = "mkdir"
    /\ \E o \in IoOutcomes :
         /\ io_faults' = IoCount(o)
         /\ IF o = "ok"
            THEN /\ pc' = "drain_raw"
                 /\ UNCHANGED <<idx, ready_frame, processed_frame, raw_frames_data,
                                processed_frames_data, task_id, tasks, all_results>>
            ELSE Caught
    /\ UNCHANGED <<mgrvars, items, envvars, completed, faults, regvars, plrest,
                   _executor>>

\* take = min(seg_len, len(ca_raw)); take times ca_raw.popleft()
W_DrainRaw ==
    /\ Unlocked
    /\ pc = "drain_raw"
    /\ LET take == Take(heap[cur].ca_segment_len, heap[cur].ca_raw)
       IN /\ raw_frames_data' = SubSeq(heap[cur].ca_raw, 1, take)
          /\ heap' = [heap EXCEPT ![cur].ca_raw = SubSeq(@, take + 1, Len(@))]
    /\ pc' = "drain_processed"
    /\ UNCHANGED <<_clients, clock, _stop_event, stop_pc, items, idx, ready_frame,
                   processed_frame, processed_frames_data, task_id, envvars, histvars, regvars,
                   plvars, _executor>>

\* take = min(seg_len, len(ca_processed)); take times ca_processed.popleft();
\* if not raw_frames_data or not processed_frames_data: return
W_DrainProcessed ==
    /\ Unlocked
    /\ pc = "drain_processed"
    /\ LET take == Take(heap[cur].ca_segment_len, heap[cur].ca_processed)
       IN /\ heap' = [heap EXCEPT ![cur].ca_processed = SubSeq(@, take + 1, Len(@))]
          /\ IF raw_frames_data = <<>> \/ take = 0
             THEN Continue
             ELSE /\ processed_frames_data' = SubSeq(heap[cur].ca_processed, 1, take)
                  /\ pc' = "write_raw"
                  /\ UNCHANGED <<idx, ready_frame, processed_frame, raw_frames_data,
                                 task_id, tasks, all_results>>
    /\ UNCHANGED <<_clients, clock, _stop_event, stop_pc, items, envvars, histvars,
                   regvars, plrest, _executor>>

\* cv2.VideoWriter(...), write, release: a writer that cannot encode or open its
\* file leaves no file and raises nothing
WriteVideo(kind, next) ==
    /\ Unlocked
    /\ \E o \in IoOutcomes :
         /\ io_faults' = IoCount(o)
         /\ hls_files' = IF o = "ok" THEN Append(hls_files, File(kind)) ELSE hls_files
    /\ pc' = next
    /\ UNCHANGED <<mgrvars, items, idx, ready_frame, processed_frame, raw_frames_data,
                   processed_frames_data, task_id, db, completed, faults, regvars, plvars,
                   _executor>>

W_WriteRaw ==
    /\ pc = "write_raw"
    /\ WriteVideo("raw_segment", "write_processed")

W_WriteProcessed ==
    /\ pc = "write_processed"
    /\ WriteVideo("processed_segment", "keypoints")

\* json.dump has no default= and raises TypeError on a numpy array
Serializable(fds) == \A i \in 1..Len(fds) : fds[i].inference_result # "ndarray"

\* with keypoints_path.open('w') as f: json.dump(keypoints_list, f, ...)
W_Keypoints ==
    /\ Unlocked
    /\ pc = "keypoints"
    /\ \E o \in IoOutcomes :
         /\ io_faults' = IoCount(o)
         /\ IF o = "ok" /\ Serializable(processed_frames_data)
            THEN /\ hls_files' = Append(hls_files, File("keypoints"))
                 /\ pc' = "raw_playlist"
                 /\ UNCHANGED <<idx, ready_frame, processed_frame, raw_frames_data,
                                processed_frames_data, task_id, tasks, all_results>>
            ELSE /\ hls_files' = IF o = "ok"
                                 THEN Append(hls_files, File("keypoints_truncated"))
                                 ELSE hls_files
                 /\ Caught
    /\ UNCHANGED <<mgrvars, items, db, completed, faults, regvars, plrest,
                   _executor>>

\* the header if the playlist does not exist, then the appended entry
AppendPlaylist(kind, next) ==
    /\ Unlocked
    /\ \E o \in IoOutcomes :
         /\ io_faults' = IoCount(o)
         /\ IF o = "ok"
            THEN /\ hls_files' = Append(hls_files, File(kind))
                 /\ pc' = next
                 /\ UNCHANGED <<idx, ready_frame, processed_frame, raw_frames_data,
                                processed_frames_data, task_id, tasks, all_results>>
            ELSE /\ Caught
                 /\ UNCHANGED hls_files
    /\ UNCHANGED <<mgrvars, items, db, completed, faults, regvars, plrest,
                   _executor>>

W_RawPlaylist ==
    /\ pc = "raw_playlist"
    /\ AppendPlaylist("raw_playlist_entry", "processed_playlist")

W_ProcessedPlaylist ==
    /\ pc = "processed_playlist"
    /\ AppendPlaylist("processed_playlist_entry", "db")

\* Variant of the database step that puts the drained frames back at the head
\* of the two cache queues when the commit fails (sensitivity of C21).
W_DbRequeue ==
    /\ Unlocked
    /\ pc = "db"
    /\ \E o \in IoOutcomes :
         /\ io_faults' = IoCount(o)
         /\ db' = IF o = "ok"
                  THEN db \o <<HLSSegment("raw_segment"), HLSSegment("processed_segment")>>
                  ELSE db
         /\ heap' = IF o = "ok" THEN heap
                    ELSE [heap EXCEPT ![cur].ca_raw = raw_frames_data \o @,
                                      ![cur].ca_processed = processed_frames_data \o @]
    /\ Continue
    /\ UNCHANGED <<_clients, clock, _stop_event, stop_pc, items, hls_files, completed,
                   faults, regvars, plrest, _executor>>

\* db.add(raw_hls_segment); db.add(processed_hls_segment); db.commit(), or
\* db.rollback() on an exception
W_Db ==
    /\ Unlocked
    /\ pc = "db"
    /\ \E o \in IoOutcomes :
         /\ io_faults' = IoCount(o)
         /\ db' = IF o = "ok"
                  THEN db \o <<HLSSegment("raw_segment"), HLSSegment("processed_segment")>>
                  ELSE db
    /\ Continue
    /\ UNCHANGED <<mgrvars, items, hls_files, completed, faults, regvars, plrest,
                   _executor>>

-----------------------------------------------------------------------------
(* app/services/task.py and app/models/task.py *)

\* class DBTask(Base): the columns of table clean_task
DBTaskColumns == {"task_id", "source_ip", "current_step", "status", "updated_time",
                  "start_time", "end_time"}

\* The task ids and the statuses a task has before the service is called.
TaskIds == {1, 2}
TaskStatuses == {"paused", "running"}

\* The values of int(time.time()) of a run.
Times == 1..MaxNow

\* The fields of a Task that the service reads or writes; task_id 0: None.
Task(tid, status) == [task_id |-> tid, status |-> status, updated_at |-> 0]
NoTask == Task(0, "None")

\* The columns of a clean_task row that the service writes.
DBTask(status) == [status |-> status, updated_time |-> 0, start_time |-> 0,
                   end_time |-> 0]

\* Assignments <<name, value>> to the attributes of a Task, in order.  pydantic's
\* BaseModel.__setattr__ raises ValueError for a name that is no field of the
\* model; the assignments after it are not run.
RECURSIVE SetAttrs(_, _)
SetAttrs(obj, assignments) ==
    IF assignments = <<>> THEN [obj |-> obj, raised |-> FALSE]
    ELSE IF assignments[1][1] \notin TaskFields THEN [obj |-> obj, raised |-> TRUE]
    ELSE SetAttrs([obj EXCEPT ![assignments[1][1]] = assignments[1][2]],
                  Tail(assignments))

\* Assignments to the attributes of a DBTask, as db.commit() writes them: an
\* attribute that is no column is set on the Python object only.
RECURSIVE SetColumns(_, _)
SetColumns(row, assignments) ==
    IF assignments = <<>> THEN row
    ELSE IF assignments[1][1] \notin DBTaskColumns
         THEN SetColumns(row, Tail(assignments))
    ELSE SetColumns([row EXCEPT ![assignments[1][1]] = assignments[1][2]],
                    Tail(assignments))

\* The shape start_task and terminate_task share: look the row up, assign to
\* it, commit, assign to the task; except Exception: rollback, return False.
UpdateTask(op, commit_ok, to_row, to_task) ==
    /\ UNCHANGED <<regvars, plvars, _executor, mgrvars, wvars, envvars, histvars,
                   facvars, callvars>>
    /\ IF \/ task_obj = NoTask
          \/ task_obj.task_id \notin DOMAIN clean_task
          \/ ~ commit_ok
       THEN /\ svc_ret' = [op |-> op, value |-> FALSE]
            /\ UNCHANGED <<clean_task, task_obj>>
       ELSE /\ clean_task' = [clean_task EXCEPT
                                 ![task_obj.task_id] = SetColumns(@, to_row)]
            /\ task_obj' = SetAttrs(task_obj, to_task).obj
            /\ svc_ret' = [op |-> op, value |-> ~ SetAttrs(task_obj, to_task).raised]

\* start_task(task); commit_ok: db.commit() does not raise
StartTask(commit_ok, now_ts) ==
    /\ now_ts \in Times
    /\ UpdateTask("start_task", commit_ok,
                  << <<"start_time", now_ts>>, <<"status", "running">>,
                     <<"updated_at", now_ts>> >>,
                  << <<"start_time", now_ts>>, <<"status", "running">>,
                     <<"updated_at", now_ts>> >>)

\* terminate_task(task)
TerminateTask(commit_ok, now_ts) ==
    /\ now_ts \in Times
    /\ UpdateTask("terminate_task", commit_ok,
                  << <<"status", "terminated">>, <<"end_time", now_ts>>,
                     <<"updated_at", now_ts>> >>,
                  << <<"status", "terminated">>, <<"end_time", now_ts>>,
                     <<"updated_at", now_ts>> >>)

-----------------------------------------------------------------------------
(* The specifications *)

vars == <<regvars, plvars, _executor, mgrvars, wvars, envvars, histvars, facvars,
          svcvars, callvars>>

InitManager ==
    /\ _executor = "running"
    /\ _clients = <<>>
    /\ heap = EmptyDict
    /\ clock = [c \in ClientIds |-> 0]
    /\ _stop_event = FALSE
    /\ stop_pc = "idle"
    /\ pc = "none"
    /\ items = <<>>
    /\ idx = 1
    /\ ready_frame = NoFrame
    /\ processed_frame = NoFrame
    /\ raw_frames_data = <<>>
    /\ processed_frames_data = <<>>
    /\ task_id = "None"
    /\ hls_files = <<>>
    /\ db = <<>>
    /\ completed = EmptyDict
    /\ faults = 0
    /\ io_faults = 0
    /\ _lock = "None"
    /\ ret = NoCall
    /\ pool = {}
    /\ control_ops = 0
    /\ clean_task = EmptyDict
    /\ task_obj = NoTask
    /\ svc_ret = NoCall
    /\ start_pc = [k \in StartCallers |-> "idle"]
    /\ other_threads = 0
    /\ start_calls = 0
    /\ submitting = {}

Init == InitRegistry /\ InitPipeline /\ InitManager

NextP ==
    \/ \E t \in TaskPool : Register(t)
    \/ \E n \in TaskNames : Unregister(n)
    \/ \E n \in TaskNames, e \in BOOLEAN : EnableTask(n, e)
    \/ \E t \in CleaningTasks : PipelineStart(t)
    \/ PipelineCollect
    \/ PipelineSerial
    \/ PipelineVisualize
    \/ PipelinePhaseEnd

\* Registry operations and calls of the pipeline, one step per task.
SpecPipeline == Init /\ [][NextP]_vars

\* The registry as constructed, or with the two tasks whose results carry
\* images switched off: enable_task("detection", False) and
\* enable_task("endoscope_bending_detection", False).
Configured ==
    LET r == EnableResult(DefaultTasks, "detection", FALSE)
    IN EnableResult(r, "endoscope_bending_detection", FALSE)

InitConfigured ==
    /\ _tasks \in {DefaultTasks, Configured}
    /\ _execution_order = RecomputeExecutionOrder(DefaultTasks)
    /\ registry_ops = 0
    /\ InitPipeline
    /\ InitManager

WorkerLoop ==
    \/ W_Loop
    \/ W_Check
    \/ W_Pop
    \/ W_AppendRaw
    \/ W_Submit
    \/ W_Infer
    \/ W_AppendProcessed
    \/ W_Flush

WorkerFlush ==
    \/ W_Mkdir
    \/ W_DrainRaw
    \/ W_DrainProcessed
    \/ W_WriteRaw
    \/ W_WriteProcessed
    \/ W_Keypoints
    \/ W_RawPlaylist
    \/ W_ProcessedPlaylist
    \/ W_Db

Next ==
    \/ \E c \in ClientIds : clock[c] < Quota(c) /\ SubmitFrame(c)
    \/ Start
    \/ WorkerLoop
    \/ WorkerFlush

\* The manager with its loop running: frames come in, are inferred and flushed.
Spec == InitConfigured /\ [][Next]_vars

NextLifecycle ==
    \/ \E c \in ClientIds : clock[c] < MaxFramesLifecycle /\ SubmitFrame(c)
    \/ Start
    \/ StopSet
    \/ StopJoin
    \/ StopShutdown
    \/ WorkerLoop

\* start() and stop() in any order around a few frames.
SpecLifecycle == Init /\ [][NextLifecycle]_vars

NextFacade ==
    \/ clock["cam1"] < MaxFramesFacade /\ SubmitFrame("cam1")
    \/ \E c \in ClientIds : control_ops < MaxControlOps /\ RemoveClient(c)
    \/ \E c \in ClientIds, t \in CleaningTasks :
          control_ops < MaxControlOps /\ SetTask(c, t)
    \/ \E c \in ClientIds, u \in RtmpUrls :
          control_ops < MaxControlOps /\ SetRtmpUrl(c, u)
    \/ \E c \in ClientIds : GetResultCall(c)
    \/ StatusCall
    \/ PoolFinish
    \/ Start
    \/ WorkerLoop

\* The calls of the facade around a running loop; frames come from the first
\* client, the second exists once set_task or set_rtmp_url has named it.
SpecFacade == Init /\ [][NextFacade]_vars

\* The record the loop appends for frame t when every enabled task succeeds.
OkFrame(t) ==
    LET ts == GetEnabledTasks(_tasks, _execution_order)
    IN FrameData(t, "processed",
                 ResultKind(PipelineResults(ts, [n \in Range(Names(ts)) |-> "ok"])))

\* The frames a run of SpecLock starts with: one short of a segment.
Backlog == _ca_segment_len - 1

\* A state of Spec: the loop is running and has processed Backlog frames of
\* the first client, without any failure, and is about to take its next
\* snapshot of the clients.
InitLock ==
    /\ _tasks \in {DefaultTasks, Configured}
    /\ _execution_order = RecomputeExecutionOrder(DefaultTasks)
    /\ registry_ops = 0
    /\ InitPipeline
    /\ _executor = "running"
    /\ _clients = <<[id |-> "cam1", ref |-> 1]>>
    /\ LET raw == [i \in 1..Backlog |-> FrameData(i, "raw", "None")]
           done == [i \in 1..Backlog |-> OkFrame(i)]
       IN /\ heap = DictPut(EmptyDict, 1,
                       [ClientQueues EXCEPT
                           !.ca_raw = raw,
                           !.ca_processed = done,
                           !.rt_processed = SubSeq(done, Backlog - _rt_maxlen + 1, Backlog),
                           !.latest_processed = done[Backlog]])
          /\ completed = DictPut(EmptyDict, 1, done)
    /\ clock = [c \in ClientIds |-> IF c = "cam1" THEN Backlog ELSE 0]
    /\ _stop_event = FALSE
    /\ stop_pc = "idle"
    /\ pc = "loop"
    /\ items = <<[id |-> "cam1", ref |-> 1]>>
    /\ idx = 2
    /\ ready_frame = NoFrame
    /\ processed_frame = NoFrame
    /\ raw_frames_data = <<>>
    /\ processed_frames_data = <<>>
    /\ task_id = "None"
    /\ hls_files = <<>>
    /\ db = <<>>
    /\ faults = 0
    /\ io_faults = 0
    /\ _lock = "None"
    /\ ret = NoCall
    /\ pool = {}
    /\ control_ops = 0
    /\ clean_task = EmptyDict
    /\ task_obj = NoTask
    /\ svc_ret = NoCall
    /\ start_pc = [k \in StartCallers |-> "idle"]
    /\ other_threads = 0
    /\ start_calls = 0
    /\ submitting = {}

NextLock ==
    \/ clock["cam1"] < Backlog + MaxFramesLock /\ SubmitFrame("cam1")
    \/ control_ops < MaxControlOps /\ RemoveClient("cam1")
    \/ control_ops < MaxControlOps /\ SetTask("cam1", 1)
    \/ GetResultCall("cam1")
    \/ GetTaskCall("cam1")
    \/ StatusCall
    \/ F_Acquire
    \/ W_Acquire
    \/ PoolFinish
    \/ WorkerLoop
    \/ WorkerFlush

\* The loop and the callers of the facade, all for one client, with the lock
\* taken in a step of its own.
SpecLock == InitLock /\ [][NextLock]_vars

NextTask ==
    \/ clock["cam1"] < MaxFramesTask /\ SubmitFrame("cam1")
    \/ \E c \in ClientIds : control_ops < MaxTaskOps /\ RemoveClient(c)
    \/ \E c \in ClientIds, t \in CleaningTasks :
          control_ops < MaxTaskOps /\ SetTask(c, t)
    \/ \E c \in ClientIds : GetTaskCall(c)
    \/ PoolFinish
    \/ Start
    \/ WorkerLoop

\* set_task, get_task and remove_client in any order, for two client ids,
\* around a running loop and a frame of the first client.
SpecTask == Init /\ [][NextTask]_vars

NextClients ==
    \/ clock["cam1"] < MaxFramesTask /\ SubmitFrame("cam1")
    \/ \E c \in ClientIds : control_ops < MaxControlOps /\ RemoveClient(c)
    \/ \E c \in ClientIds : control_ops < MaxControlOps /\ SetTask(c, 1)
    \/ \E c \in ClientIds, u \in RtmpUrls :
          control_ops < MaxControlOps /\ SetRtmpUrl(c, u)
    \/ \E c \in ClientIds : GetResultCall(c)
    \/ \E c \in ClientIds : GetTaskCall(c)
    \/ Start
    \/ WorkerLoop

\* The calls that create, read and remove the state of a client, for two
\* client ids, around a running loop and a frame of the first client.
SpecClients == Init /\ [][NextClients]_vars

\* A caller holds no task or a task, whose row the database's scripts have
\* created or not.
InitTaskService ==
    /\ InitRegistry
    /\ InitPipeline
    /\ _executor = "running"
    /\ _clients = <<>>
    /\ heap = EmptyDict
    /\ clock = [c \in ClientIds |-> 0]
    /\ _stop_event = FALSE
    /\ stop_pc = "idle"
    /\ pc = "none"
    /\ items = <<>>
    /\ idx = 1
    /\ ready_frame = NoFrame
    /\ processed_frame = NoFrame
    /\ raw_frames_data = <<>>
    /\ processed_frames_data = <<>>
    /\ task_id = "None"
    /\ hls_files = <<>>
    /\ db = <<>>
    /\ completed = EmptyDict
    /\ faults = 0
    /\ io_faults = 0
    /\ _lock = "None"
    /\ ret = NoCall
    /\ pool = {}
    /\ control_ops = 0
    /\ \E ids \in SUBSET TaskIds :
         clean_task \in [ids -> {DBTask(s) : s \in TaskStatuses}]
    /\ task_obj \in {NoTask} \cup {Task(i, s) : i \in TaskIds, s \in TaskStatuses}
    /\ svc_ret = NoCall
    /\ start_pc = [k \in StartCallers |-> "idle"]
    /\ other_threads = 0
    /\ start_calls = 0
    /\ submitting = {}

NextTaskService ==
    \/ \E commit_ok \in BOOLEAN, now_ts \in Times : StartTask(commit_ok, now_ts)
    \/ \E commit_ok \in BOOLEAN, now_ts \in Times : TerminateTask(commit_ok, now_ts)

SpecTaskService == InitTaskService /\ [][NextTaskService]_vars

\* start() and stop() called by several threads at once, on a manager without
\* clients.
NextStart ==
    \/ \E k \in StartCallers : StartCheck(k)
    \/ \E k \in StartCallers : StartCreate(k)
    \/ StopSet
    \/ StopJoin
    \/ StopShutdown
    \/ W_Loop
    \/ OtherThreadExit

SpecStart == Init /\ [][NextStart]_vars

NextFair ==
    \/ \E c \in ClientIds : clock[c] < MaxFramesFair /\ SubmitFrame(c)
    \/ \E c \in ClientIds, t \in CleaningTasks :
          control_ops < MaxControlOps /\ SetTask(c, t)
    \/ Start
    \/ WorkerLoop

\* Two clients that submit frames and bind tasks around a loop that, once
\* started, is never stopped and always gets to take its next step.
SpecFair == Init /\ [][NextFair]_vars /\ WF_vars(WorkerLoop)

\* The frames a run of SpecSubmit starts with: two short of a segment.
SubmitBacklog == _ca_segment_len - 2

\* A state of the running manager: the first caller of submit_frame has read
\* the clock and not yet reached its with block; after it the second caller
\* has submitted SubmitBacklog frames, which the loop has processed without
\* any failure.
InitSubmit ==
    /\ _tasks \in {DefaultTasks, Configured}
    /\ _execution_order = RecomputeExecutionOrder(DefaultTasks)
    /\ registry_ops = 0
    /\ InitPipeline
    /\ _executor = "running"
    /\ _clients = <<[id |-> "cam1", ref |-> 1]>>
    /\ LET raw == [i \in 1..SubmitBacklog |-> FrameData(i + 1, "raw", "None")]
           done == [i \in 1..SubmitBacklog |-> OkFrame(i + 1)]
       IN /\ heap = DictPut(EmptyDict, 1,
                       [ClientQueues EXCEPT
                           !.ca_raw = raw,
                           !.ca_processed = done,
                           !.rt_processed = SubSeq(done, SubmitBacklog - _rt_maxlen + 1, SubmitBacklog),
                           !.latest_processed = done[SubmitBacklog]])
          /\ completed = DictPut(EmptyDict, 1, done)
    /\ clock = [c \in ClientIds |-> IF c = "cam1" THEN SubmitBacklog + 1 ELSE 0]
    /\ _stop_event = FALSE
    /\ stop_pc = "idle"
    /\ pc = "loop"
    /\ items = <<[id |-> "cam1", ref |-> 1]>>
    /\ idx = 2
    /\ ready_frame = NoFrame
    /\ processed_frame = NoFrame
    /\ raw_frames_data = <<>>
    /\ processed_frames_data = <<>>
    /\ task_id = "None"
    /\ hls_files = <<>>
    /\ db = <<>>
    /\ faults = 0
    /\ io_faults = 0
    /\ _lock = "None"
    /\ ret = NoCall
    /\ pool = {}
    /\ control_ops = 0
    /\ clean_task = EmptyDict
    /\ task_obj = NoTask
    /\ svc_ret = NoCall
    /\ start_pc = [k \in StartCallers |-> "idle"]
    /\ other_threads = 0
    /\ start_calls = 0
    /\ submitting = {[caller |-> 1, client_id |-> "cam1",
                      frame_data |-> FrameData(1, "raw", "None")]}

NextSubmit ==
    \/ \E k \in SubmitCallers :
          clock["cam1"] < MaxFramesSubmit /\ SubmitFrameNow(k, "cam1")
    \/ \E k \in SubmitCallers : SubmitFrameAppend(k)
    \/ WorkerLoop
    \/ WorkerFlush

\* Two callers inside submit_frame for the same client at the same time, the
\* reading of the clock and the append being steps of their own, around a
\* running loop and its flush.
SpecSubmit == InitSubmit /\ [][NextSubmit]_vars

-----------------------------------------------------------------------------
(* Properties of the pipeline call (SpecPipeline) *)

DisabledAtCall ==
    {tasks_at_call[i].name : i \in {j \in 1..Len(tasks_at_call) : ~ tasks_at_call[j].enabled}}

RegisteredAtCall == {tasks_at_call[i].name : i \in 1..Len(tasks_at_call)}

InferredNames == {infer_log[i].name : i \in 1..Len(infer_log)}

\* C7: a task that is disabled when a pipeline call starts has no entry in the
\* call's result map, and neither its infer nor its visualize is called in that
\* call, whatever else is registered, depends on it, or is re-registered meanwhile.
C7_DisabledTaskAbsent ==
    \A n \in DisabledAtCall :
        /\ n \notin DOMAIN all_results
        /\ n \notin InferredNames
        /\ n \notin Range(visualize_log)

\* A finished call in which detection was disabled while motion, which requires
\* it, ran and other tasks were drawn.
C7_Witness ==
    /\ pl_pc = "done"
    /\ "detection" \in DisabledAtCall
    /\ "motion" \in DOMAIN all_results
    /\ visualize_log # <<>>

Orphans ==
    {i \in 1..Len(tasks_at_call) :
        /\ tasks_at_call[i].enabled
        /\ \E a \in Range(tasks_at_call[i].requires) : a \notin RegisteredAtCall}

\* C10: when a registered, enabled task B requires a name A that has been
\* unregistered, a pipeline call does not raise; B's infer is invoked with a
\* context whose results have no entry for A, and the result map of the call
\* holds B and not A.
C10_DependencyUnregistered ==
    \A i \in Orphans :
        /\ pl_pc # "raised"
        /\ pl_pc \in {"visualize", "done"} =>
             \A a \in Range(tasks_at_call[i].requires) \ RegisteredAtCall :
                /\ tasks_at_call[i].name \in DOMAIN all_results
                /\ a \notin DOMAIN all_results
                /\ \E j \in 1..Len(infer_log) :
                      /\ infer_log[j].name = tasks_at_call[i].name
                      /\ a \notin infer_log[j].results

-----------------------------------------------------------------------------
(* Properties of the manager (Spec, SpecLifecycle) *)

ReadyLen(c) == IF HasClient(c) THEN Status.queues[c].ca_ready ELSE 0

\* never started, or stop() has returned and start() was not called since
SchedulerStopped == stop_pc = "idle" /\ (pc = "none" \/ _stop_event)

C1_Step ==
    (SchedulerStopped /\ SchedulerStopped') =>
        \A c \in ClientIds :
            ReadyLen(c)' = ReadyLen(c) + (IF clock'[c] # clock[c] THEN 1 ELSE 0)

C1_State ==
    /\ Status.clients = Cardinality({c \in ClientIds : clock[c] > 0})
    /\ pc = "none" => \A c \in ClientIds : ReadyLen(c) = clock[c]

\* C1: while the scheduler is stopped (never started, or stop() has returned)
\* every submit_frame(id, f) makes the ca_ready that status() reports for id one
\* larger and nothing else changes it, so N calls on an empty ready queue leave
\* N; and status() reports as many clients as distinct ids have submitted.
C1_SubmitWhileStopped == [] C1_State /\ [][C1_Step]_vars

\* stop() has returned, the thread has ended, and both clients have submitted
\* all their frames, none of which was popped.
C1_Witness ==
    /\ _stop_event
    /\ stop_pc = "idle"
    /\ pc = "exit"
    /\ Status.clients = Cardinality(ClientIds)
    /\ \A c \in ClientIds : Status.queues[c].ca_ready = MaxFramesLifecycle

\* C2: the real-time queue of every client never holds more than its capacity
\* _rt_maxlen, and it holds, in completion order, the last _rt_maxlen completed
\* results of the client (all of them while there are no more than that).
C2_RealTimeQueueBounded ==
    \A o \in DOMAIN heap :
        LET rt == heap[o].rt_processed
            done == completed[o]
        IN /\ Len(rt) <= _rt_maxlen
           /\ rt = IF Len(done) > _rt_maxlen
                   THEN SubSeq(done, Len(done) - _rt_maxlen + 1, Len(done))
                   ELSE done

\* A client with more completed inferences than capacity plus one: the queue has
\* evicted twice.
C2_Witness ==
    \E o \in DOMAIN heap :
        /\ Len(completed[o]) > _rt_maxlen + 1
        /\ Len(heap[o].rt_processed) = _rt_maxlen

BothReached(q) ==
    Len(q.ca_raw) >= q.ca_segment_len /\ Len(q.ca_processed) >= q.ca_segment_len

FlushPcs == {"mkdir", "drain_raw", "drain_processed", "write_raw", "write_processed",
             "keypoints", "raw_playlist", "processed_playlist", "db"}

\* between the pop of a frame and the append of its result
FramePcs == {"pop", "append_raw", "submit", "infer", "append_processed"}

\* A cache queue gets shorter only by the drain of a flush whose check found
\* both sides at the segment length.
C3_Drains ==
    \A o \in DOMAIN heap \cap DOMAIN heap' :
        /\ Len(heap'[o].ca_raw) < Len(heap[o].ca_raw) =>
              pc = "drain_raw" /\ o = cur /\ BothReached(heap[o])
        /\ Len(heap'[o].ca_processed) < Len(heap[o].ca_processed) =>
              /\ pc = "drain_processed" /\ o = cur
              /\ Len(heap[o].ca_processed) >= heap[o].ca_segment_len
              /\ Len(raw_frames_data) >= heap[o].ca_segment_len

\* The check follows every appended result, and it starts a flush exactly when
\* both sides have reached the segment length.
C3_Check ==
    /\ (pc = "append_processed" /\ pc' # pc) => pc' = "flush"
    /\ (pc = "flush" /\ pc' # pc) => (pc' = "mkdir" <=> BothReached(heap[cur]))

\* While no I/O call has failed, no frame of a client is popped or inferred
\* with both of its cache queues at the segment length.
C3_State ==
    (pc \in FramePcs /\ io_faults = 0) => ~ BothReached(heap[cur])

C4_DrainRaw ==
    (pc = "drain_raw" /\ pc' # pc) =>
        LET q == heap[cur]
            take == Min(q.ca_segment_len, Min(Len(q.ca_raw), Len(q.ca_processed)))
        IN /\ raw_frames_data' = SubSeq(q.ca_raw, 1, take)
           /\ heap'[cur].ca_raw = SubSeq(q.ca_raw, take + 1, Len(q.ca_raw))
           /\ heap'[cur].ca_processed = q.ca_processed

C4_DrainProcessed ==
    (pc = "drain_processed" /\ pc' # pc) =>
        LET q == heap[cur]
            take == Min(q.ca_segment_len,
                        Min(Len(raw_frames_data) + Len(q.ca_raw), Len(q.ca_processed)))
        IN /\ Len(raw_frames_data) = take
           /\ processed_frames_data' = SubSeq(q.ca_processed, 1, take)
           /\ heap'[cur].ca_processed = SubSeq(q.ca_processed, take + 1, Len(q.ca_processed))
           /\ heap'[cur].ca_raw = q.ca_raw

\* C4: a flush takes take = min(seg_len, len(ca_raw), len(ca_processed)), as
\* they are when it starts, records from the head of ca_raw and the same number
\* from the head of ca_processed, oldest first; what lies behind them stays in
\* both queues in its order.
C4_FlushTakesHeads == [][C4_DrainRaw /\ C4_DrainProcessed]_vars

\* A flush that has drained a full segment from each side and left records
\* behind in both queues.
C4_Witness ==
    /\ pc = "write_raw"
    /\ Len(raw_frames_data) = heap[cur].ca_segment_len
    /\ Len(processed_frames_data) = heap[cur].ca_segment_len
    /\ heap[cur].ca_raw # <<>>
    /\ heap[cur].ca_processed # <<>>

Count(log, P(_)) == Cardinality({i \in 1..Len(log) : P(log[i])})

\* the artifacts of the flush of client c whose first drained record has time t
ArtifactSet(c, t) ==
    /\ \A kind \in {"raw_segment", "processed_segment", "keypoints",
                    "raw_playlist_entry", "processed_playlist_entry"} :
          Count(hls_files, LAMBDA f : f = [kind |-> kind, client_id |-> c, start_ts |-> t]) = 1
    /\ \A kind \in {"raw_segment", "processed_segment"} :
          Count(db, LAMBDA r : r.client_id = c /\ r.start_ts = t /\ r.segment_path = kind) = 1

\* C5: every flush that has drained frames and has ended has produced its two
\* videos, its keypoints file, its two playlist entries and its two segment
\* records.  Stated for the runs in which no I/O call has failed.
C5_AtomicArtifactSet ==
    io_faults = 0 =>
        \A i \in 1..Len(_clients) :
            LET c == _clients[i].id
                o == _clients[i].ref
                seg_len == heap[o].ca_segment_len
                drained == Len(completed[o]) - Len(heap[o].ca_processed)
            IN \A j \in 1..drained :
                  ((j - 1) % seg_len = 0 /\ ~ (pc \in FlushPcs /\ cur = o /\ j + seg_len > drained))
                      => ArtifactSet(c, completed[o][j].timestamp)

\* C6: with seg_len 10 and capacity 5, once the 12 frames submitted for the only
\* client have been processed with every task call succeeding (and no I/O call
\* failing), the real-time queue holds 5 records, one flush has written its
\* segment with 2 segment records, and both cache queues hold 2 records.
C6_TwelveFrames ==
    (/\ clock["cam1"] = 12 /\ clock["cam2"] = 0
     /\ HasClient("cam1")
     /\ Len(completed[Ref("cam1")]) = 12
     /\ pc \in {"loop", "check"}
     /\ faults = 0 /\ io_faults = 0
     /\ _ca_segment_len = 10 /\ _rt_maxlen = 5)
    => LET q == heap[Ref("cam1")]
       IN /\ Len(q.rt_processed) = 5
          /\ Len(q.ca_raw) = 2
          /\ Len(q.ca_processed) = 2
          /\ Len(db) = 2
          /\ ArtifactSet("cam1", completed[Ref("cam1")][1].timestamp)

\* C9: every frame popped from a ready queue, once the loop is done with it, has
\* a processed record in ca_processed, and latest_processed is the record of
\* the frame popped last.  (SpecLifecycle has no flush, so the queues hold all.)
C9_NoFrameDropped ==
    \A o \in DOMAIN heap :
        LET q == heap[o]
            inflight == pc \in {"submit", "infer", "append_processed"} /\ cur = o
        IN /\ Len(q.ca_raw) = Len(q.ca_processed) + (IF inflight THEN 1 ELSE 0)
           /\ (~ inflight /\ q.ca_raw # <<>>) =>
                 q.latest_processed.timestamp = q.ca_raw[Len(q.ca_raw)].timestamp

\* stop() has returned before and the thread has ended, or start() was never
\* called
AlreadyStopped == pc = "none" \/ (pc = "exit" /\ _stop_event /\ _executor = "shutdown")

C19_Step ==
    (stop_pc' # stop_pc /\ AlreadyStopped) =>
        /\ UNCHANGED <<_clients, heap, clock, wvars, envvars>>
        /\ AlreadyStopped'
        /\ _stop_event'
        /\ stop_pc' = "idle" => _executor' = "shutdown"
        /\ (_stop_event /\ _executor = "shutdown") => UNCHANGED <<_stop_event, _executor>>

\* C19: every step of a stop() on a manager that is already stopped or was
\* never started leaves the thread ended, the stop signal set and every client
\* queue as it was; when the call returns the pool is shut down; and after a
\* stop() a further stop() changes nothing.
C19_StopIdempotent == [][C19_Step]_vars

\* A second stop() is about to shut the pool down again, with the thread ended
\* and frames of both clients in the queues.
C19_Witness ==
    /\ stop_pc = "shutdown"
    /\ _executor = "shutdown"
    /\ pc = "exit"
    /\ \A c \in ClientIds : HasClient(c) /\ Status.queues[c].ca_ready > 0

-----------------------------------------------------------------------------
(* Order of processing (Spec) *)

\* submit_frame numbers the frames of a client in the order in which it appends
\* them to ca_ready, so the timestamp of a frame is its place in that order.
Increasing(q) == \A i, j \in 1..Len(q) : i < j => q[i].timestamp < q[j].timestamp

Before(p, q) == \A i \in 1..Len(p), j \in 1..Len(q) : p[i].timestamp < q[j].timestamp

\* the frame the loop has popped and not yet finished, if it is of object o
InFlight(o) ==
    IF pc \in {"append_raw", "submit", "infer", "append_processed"} /\ cur = o
    THEN <<ready_frame>>
    ELSE <<>>

\* C11: per client, frames are processed in the order in which submit_frame
\* appended them to ca_ready: the frame popped is older than every frame still
\* waiting and newer than every frame popped before it, and ca_raw,
\* ca_processed, rt_processed and the sequence of completed results each hold
\* their frames in that order, under every interleaving of submit_frame with
\* the loop.
C11_FifoPerClient ==
    \A o \in DOMAIN heap :
        LET q == heap[o]
        IN /\ Increasing(q.ca_ready)
           /\ Increasing(q.ca_raw)
           /\ Increasing(q.ca_processed)
           /\ Increasing(q.rt_processed)
           /\ Increasing(completed[o])
           /\ Before(InFlight(o), q.ca_ready)
           /\ Before(q.ca_raw, q.ca_ready)
           /\ Before(completed[o], q.ca_ready)
           /\ pc \in {"append_raw", "submit", "infer"} => Before(completed[o], InFlight(o))
           /\ pc = "append_raw" => Before(q.ca_raw, InFlight(o))

\* Two results of a client are complete, its third frame is in the pipeline and
\* later frames of it wait in ca_ready.
C11_Witness ==
    \E o \in DOMAIN heap :
        /\ Len(completed[o]) >= 2
        /\ pc = "infer" /\ cur = o
        /\ Len(heap[o].ca_ready) >= 2

Last(q) == q[Len(q)]

\* C13: in every state in which the lock is free, latest_processed of every
\* client is the most recently completed processed record: it is None exactly
\* when the real-time queue is empty, which is when no inference of the client
\* has completed, and otherwise it is the last element of the real-time queue.
C13_LatestProcessed ==
    \A o \in DOMAIN heap :
        LET q == heap[o]
        IN /\ q.latest_processed = NoFrame <=> q.rt_processed = <<>>
           /\ q.rt_processed = <<>> <=> completed[o] = <<>>
           /\ q.rt_processed # <<>> =>
                 /\ q.latest_processed = Last(q.rt_processed)
                 /\ q.latest_processed = Last(completed[o])

\* A client has more results than the real-time queue holds, so the queue has
\* dropped its oldest, while another client has none yet.
C13_Witness ==
    /\ \E o \in DOMAIN heap :
          /\ Len(completed[o]) > _rt_maxlen
          /\ heap[o].latest_processed = Last(completed[o])
    /\ \E o \in DOMAIN heap : heap[o].latest_processed = NoFrame

\* C16: what status() returns never shows a flush half applied. The loop
\* appends a frame to ca_raw before its result to ca_processed and a flush
\* takes as many from one as from the other, so a status() that shows fewer raw
\* than processed frames for a client was computed between the two drains.
\* The lock is free in every state, so status() can run in every state.
C16_StatusConsistent ==
    \A c \in DOMAIN Status.queues :
        Status.queues[c].ca_processed <= Status.queues[c].ca_raw

\* The step is the end of a flush that raised: mkdir, the JSON file or a
\* playlist failed.
FlushRaised ==
    /\ pc \in {"mkdir", "keypoints", "raw_playlist", "processed_playlist"}
    /\ pc' \notin FlushPcs

\* The step is a pipeline call that raised.
PipelineRaised == pc = "submit" /\ pc' \notin {"submit", "infer"}

C20_Step ==
    (FlushRaised \/ PipelineRaised) =>
        /\ pc' = "check"
        /\ idx' = idx + 1
        /\ UNCHANGED <<items, _clients, heap, completed, _stop_event>>

\* Every frame submitted is waiting, in the pipeline, or has its result,
\* whatever has failed in a task or in a flush of any client.
C20_State ==
    /\ pc # "exit"
    /\ \A c \in ClientIds :
          HasClient(c) =>
             clock[c] = Len(heap[Ref(c)].ca_ready) + Len(InFlight(Ref(c)))
                        + Len(completed[Ref(c)])

-----------------------------------------------------------------------------
(* The calls of the facade (SpecFacade) *)

\* the ClientQueues objects that remove_client has taken out of the dict
Removed == DOMAIN heap \ {_clients[i].ref : i \in 1..Len(_clients)}

C12_Step ==
    \A o \in Removed \cap DOMAIN heap' :
        /\ heap'[o].ca_ready = heap[o].ca_ready
        /\ heap'[o].ca_raw = heap[o].ca_raw
        /\ heap'[o].ca_processed = heap[o].ca_processed

\* C12: once remove_client(id) has returned, no frame that was waiting in the
\* ready queue of id is popped for the pipeline and nothing is appended to the
\* client's cache queues any more, also when the loop has taken its snapshot of
\* the clients before the call.
C12_RemoveDiscards == [][C12_Step]_vars

\* what get_result returned, in the state the call was made in
C14_State ==
    ret.op = "get_result" =>
        LET none == ~ HasClient(ret.arg) \/ completed[Ref(ret.arg)] = <<>>
        IN /\ ret.value = NoFrame <=> none
           /\ ~ none => ret.value = Last(completed[Ref(ret.arg)])

C14_Step ==
    ret'.op = "get_result" =>
        /\ UNCHANGED <<_clients, heap, completed>>
        /\ (ret.op = "get_result" /\ ret.arg = ret'.arg) => ret'.value = ret.value

\* C14: get_result(id) returns None exactly when id has no client state or no
\* inference has completed for it, and otherwise the most recently completed
\* processed record of id; the call changes no queue, and a second call right
\* after it returns the same.
C14_GetResult == [] C14_State /\ [][C14_Step]_vars

\* get_result has returned the second of two completed records of a client.
C14_Witness ==
    /\ ret.op = "get_result"
    /\ HasClient(ret.arg)
    /\ Len(completed[Ref(ret.arg)]) >= 2
    /\ ret.value = completed[Ref(ret.arg)][2]

C15_Step ==
    ret'.op = "status" =>
        /\ UNCHANGED <<_clients, heap>>
        /\ ret'.value = Status'
        /\ ret.op = "status" => ret'.value = ret.value

\* C15: status() changes no queue and creates no client, what it returns are
\* the client count and the queue depths of the state it leaves, and a second
\* status() with no other step in between returns the same.
C15_StatusIdempotent == [][C15_Step]_vars

\* status() has returned two clients, one of them with two results and a
\* stream address or a task set.
C15_Witness ==
    /\ ret.op = "status"
    /\ ret.value.clients = 2
    /\ ret.value.queues["cam1"].rt_processed = 2
    /\ control_ops > 0

\* C18: a bound CleaningTask has one writer at a time: no two infer calls that
\* write to the same CleaningTask are running in the pool together, also after
\* future.result has timed out on one of them and the loop has gone on.
C18_SingleWriter ==
    \A a, b \in pool :
        (a.name \in MutatesTask /\ b.name \in MutatesTask /\ a.task = b.task) => a = b

-----------------------------------------------------------------------------
(* The lock (SpecLock) *)

\* The loop holds the lock only where it stands at a with self._lock block:
\* the snapshot of the clients, the pop, and the appends; not in a task call,
\* not in a flush, not after the thread has ended.
C17_State == _lock = "worker" => pc \in LockPcs

\* Whoever holds the lock can go on to the end of its block.
C17_NoDeadlock ==
    /\ _lock = "worker" => ENABLED WorkerLoop
    /\ _lock = "facade" => ENABLED StatusCall

\* While the loop holds the lock the only steps are its own and the return of
\* a call in the pool; its own step ends the block and frees the lock.
C17_Step == (_lock = "worker" /\ pool' = pool) => _lock' = "None"

\* C17: the loop holds the lock only for a snapshot, a pop or an append and
\* never during a task call, a flush or a sleep; no state is a deadlock; and
\* when the loop holds the lock its next step releases it, so that a caller of
\* the facade gets the lock after finitely many steps of the loop.
C17_FacadeNeverWaits == [] (C17_State /\ C17_NoDeadlock) /\ [][C17_Step]_vars

\* A caller of the facade holds the lock while a flush is writing a segment,
\* after a task of the frame before has timed out.
C17_Witness ==
    /\ _lock = "facade"
    /\ pc = "write_processed"
    /\ faults > 0

-----------------------------------------------------------------------------
(* Persistence (Spec) *)

Drop(q, n) == SubSeq(q, n + 1, Len(q))

Timestamps(q) == {q[i].timestamp : i \in 1..Len(q)}

\* A cache queue changes only by losing records at its head or by getting one
\* record at its tail that is newer than every result the client has.
HeadOrTail(q, q2, done) ==
    \/ \E n \in 0..Len(q) : q2 = Drop(q, n)
    \/ /\ Len(q2) = Len(q) + 1
       /\ SubSeq(q2, 1, Len(q)) = q
       /\ \A t \in Timestamps(done) : t < Last(q2).timestamp

\* the steps of a flush after its drains
DrainedPcs == {"write_raw", "write_processed", "keypoints", "raw_playlist",
               "processed_playlist", "db"}

\* The step is a commit that failed.
StorageFailed == pc = "db" /\ io_faults' # io_faults

C21_Step ==
    /\ StorageFailed =>
          /\ pc' = "check"
          /\ idx' = idx + 1
          /\ UNCHANGED <<heap, db, items, _clients, completed>>
    /\ \A o \in DOMAIN heap \cap DOMAIN heap' :
          /\ HeadOrTail(heap[o].ca_raw, heap'[o].ca_raw, completed[o])
          /\ HeadOrTail(heap[o].ca_processed, heap'[o].ca_processed, completed[o])

\* What a flush has drained is in neither cache queue, and no segment record
\* of the flush is stored before its commit.
C21_State ==
    /\ pc # "exit"
    /\ pc \in DrainedPcs =>
          /\ Timestamps(raw_frames_data) \cap Timestamps(heap[cur].ca_raw) = {}
          /\ Timestamps(processed_frames_data) \cap Timestamps(heap[cur].ca_processed) = {}
          /\ \A i \in 1..Len(db) :
                ~ (db[i].client_id = client_id /\ db[i].start_ts = start_ts)

\* C21: when the commit of a flush fails the failure is caught: the drained
\* frames go back into neither cache queue, no segment record of the flush is
\* stored and the loop goes on with the next client; and a record that has
\* left a cache queue never returns to it, so that no frame is drained twice.
C21_AtMostOnce == [] C21_State /\ [][C21_Step]_vars

\* The commit of the first client's flush has failed after both playlists were
\* written; the frames of the segment are gone and the client's next frame has
\* its result.
C21_Witness ==
    /\ io_faults > 0
    /\ db = <<>>
    /\ \E i \in 1..Len(hls_files) :
          hls_files[i].kind = "processed_playlist_entry" /\ hls_files[i].client_id = "cam1"
    /\ pc \notin FlushPcs
    /\ HasClient("cam1")
    /\ Len(completed[Ref("cam1")]) > _ca_segment_len
    /\ Len(heap[Ref("cam1")].ca_processed) < _ca_segment_len

-----------------------------------------------------------------------------
(* One ClientQueues object per client id (SpecFacade) *)

\* the positions at which the loop works on the object of its snapshot
WorkingPcs == {"append_raw", "submit", "infer", "append_processed", "flush"} \cup FlushPcs

\* C22: there is one ClientQueues object per client id: no id is twice in the
\* dict of the clients, and while the loop works on the object of an id the
\* dict holds no other object for that id, under every interleaving of
\* submit_frame, set_task, set_rtmp_url and remove_client with a tick.
C22_OneStatePerId ==
    /\ \A i, j \in 1..Len(_clients) : _clients[i].id = _clients[j].id => i = j
    /\ (pc \in WorkingPcs /\ HasClient(client_id)) => Ref(client_id) = cur

-----------------------------------------------------------------------------
(* Calls for an id without client state (SpecClients) *)

Ids(cl) == {cl[i].id : i \in 1..Len(cl)}

\* what get_result and get_task returned for an id that is no key of the dict
C23_State ==
    /\ (ret.op = "get_result" /\ ~ HasClient(ret.arg)) => ret.value = NoFrame
    /\ (ret.op = "get_task" /\ ~ HasClient(ret.arg)) => ret.value = 0

C23_Step ==
    /\ ret'.op \in {"get_result", "get_task"} => UNCHANGED <<_clients, heap>>
    /\ \A c \in ClientIds :
          (~ HasClient(c) /\ RemoveClient(c)) => UNCHANGED <<_clients, heap>>
    /\ Ids(_clients') \ Ids(_clients) # {} =>
          \E c \in ClientIds :
              \/ SubmitFrame(c)
              \/ \E t \in CleaningTasks : SetTask(c, t)
              \/ \E u \in RtmpUrls : SetRtmpUrl(c, u)
    /\ Ids(_clients) \ Ids(_clients') # {} => \E c \in ClientIds : RemoveClient(c)

\* C23: for an id without client state get_result and get_task return None
\* and remove_client does nothing, and each leaves the dict of the clients and
\* all queues as they are; an id enters the dict only in a step of
\* submit_frame, set_task or set_rtmp_url and leaves it only in a step of
\* remove_client.
C23_AbsentClient == [] C23_State /\ [][C23_Step]_vars

\* get_task has returned None for an id whose state remove_client has taken
\* out of the dict.
C23_Witness ==
    /\ ret.op = "get_task"
    /\ ret.arg = "cam1"
    /\ ret.value = 0
    /\ ~ HasClient("cam1")
    /\ clock["cam1"] > 0
    /\ control_ops > 0

-----------------------------------------------------------------------------
(* set_task and get_task (SpecTask) *)

\* the queues of a ClientQueues object
Queues(q) == <<q.ca_ready, q.ca_raw, q.ca_processed, q.rt_processed, q.latest_processed>>

C24_Step ==
    /\ \A c \in ClientIds, t \in CleaningTasks :
          SetTask(c, t) =>
             /\ GetTask(c)' = t
             /\ \A d \in ClientIds \ {c} : GetTask(d)' = GetTask(d)
             /\ \A o \in DOMAIN heap :
                   o \in DOMAIN heap' /\ Queues(heap'[o]) = Queues(heap[o])
    /\ \A c \in ClientIds :
          GetTask(c)' # GetTask(c) =>
             \/ \E t \in CleaningTasks : SetTask(c, t)
             \/ RemoveClient(c)
    /\ ret'.op = "get_task" =>
          /\ ret'.value = GetTask(ret'.arg)
          /\ UNCHANGED <<_clients, heap>>

\* C24: after set_task(id, t) get_task(id) returns t, also for t = None, until
\* the next set_task or remove_client of id: what get_task(id) returns changes
\* only in a step of set_task(id, .) or remove_client(id); and set_task changes
\* no queue of any client and no other client's task.
C24_TaskRoundTrip == [][C24_Step]_vars

\* get_task has returned None for a client whose frame is in the pipeline with
\* the task that was bound when the frame was popped: set_task(id, None) has
\* detached it since.
C24_Witness ==
    /\ ret = [op |-> "get_task", arg |-> "cam1", value |-> 0]
    /\ HasClient("cam1")
    /\ heap[Ref("cam1")].ca_raw # <<>>
    /\ \E inv \in pool : inv.id = "cam1" /\ inv.task = 1

-----------------------------------------------------------------------------
(* The segment records (Spec) *)

\* the rows 2k-1 and 2k of the table are the two records of one flush
PairOfFlush(raw, processed) ==
    /\ raw.segment_path = "raw_segment"
    /\ processed.segment_path = "processed_segment"
    /\ raw.client_id = processed.client_id
    /\ raw.start_ts = processed.start_ts
    /\ raw.end_ts = processed.end_ts
    /\ raw.task_id = processed.task_id
    /\ HasClient(raw.client_id) => raw.task_id = TaskId(heap[Ref(raw.client_id)])

C25_Pairs ==
    /\ Len(db) % 2 = 0
    /\ \A k \in 1..(Len(db) \div 2) : PairOfFlush(db[2 * k - 1], db[2 * k])
    /\ \A i, j \in 1..Len(db) :
          (db[i].client_id = db[j].client_id /\ db[i].start_ts = db[j].start_ts
           /\ db[i].segment_path = db[j].segment_path) => i = j

\* C25: every flush that succeeds stores two segment records, one raw and one
\* processed, both with the client id and the id of the client's task; the
\* processed record has the path of the keypoints file of the flush and the
\* raw record has none.
C25_TwoSegmentRecords ==
    /\ C25_Pairs
    /\ \A k \in 1..(Len(db) \div 2) :
          /\ KeypointsPath(db[2 * k - 1]) = "None"
          /\ KeypointsPath(db[2 * k]) # "None"

-----------------------------------------------------------------------------
(* The keypoints of a processed record (Spec) *)

\* the detection task of the frame in the loop's hands has succeeded
DetectionSucceeded ==
    /\ "detection" \in DOMAIN all_results
    /\ all_results["detection"].success

DetectionEnabled ==
    \E i \in 1..Len(_tasks) : _tasks[i].name = "detection" /\ _tasks[i].enabled

\* C26: the processed record the loop builds for a frame whose detection task
\* succeeded has that frame's keypoints, not None; so has the record that
\* get_result returns once it is appended; and so has every entry of the
\* keypoints file of a flush whose frames all had their tasks succeed.
C26_KeypointsCarried ==
    /\ (pc \in {"append_processed", "flush"} /\ DetectionSucceeded) =>
          processed_frame.keypoints # "None"
    /\ (pc = "flush" /\ DetectionSucceeded /\ HasClient(client_id)) =>
          GetResult(client_id).keypoints # "None"
    /\ (pc = "keypoints" /\ DetectionEnabled /\ faults = 0) =>
          \A i \in 1..Len(processed_frames_data) :
              processed_frames_data[i].keypoints # "None"

-----------------------------------------------------------------------------
(* What submit_frame and the processing of a frame change (SpecLifecycle) *)

\* The step is a submit_frame(c, .): only submit_frame draws a timestamp.
C27_Submit ==
    \A c \in ClientIds :
        clock'[c] # clock[c] =>
            LET before == IF HasClient(c) THEN heap[Ref(c)] ELSE ClientQueues
                after == (heap[Ref(c)])'
            IN /\ HasClient(c)'
               /\ after.ca_ready =
                     Append(before.ca_ready, FrameData(clock[c] + 1, "raw", "None"))
               /\ after = [before EXCEPT !.ca_ready = after.ca_ready]
               /\ \A o \in DOMAIN heap :
                     (HasClient(c) => o # Ref(c)) =>
                         o \in DOMAIN heap' /\ heap'[o] = heap[o]

\* The step is the pop of a frame.
C27_Pop ==
    (pc = "pop" /\ pc' = "append_raw") =>
        /\ heap[cur].ca_ready # <<>>
        /\ ready_frame' = Head(heap[cur].ca_ready)
        /\ heap' = [heap EXCEPT ![cur].ca_ready = Tail(@)]

\* The popped frame goes through the pipeline to the append of its result;
\* nothing on the way touches a ready queue or a real-time queue.
C27_Between ==
    (pc \in {"append_raw", "submit", "infer"} /\ pc' # pc) =>
        /\ pc' = CASE pc = "append_raw" -> "submit"
                   [] pc = "submit" -> "infer"
                   [] pc = "infer" -> "append_processed"
        /\ ready_frame' = ready_frame
        /\ \A o \in DOMAIN heap :
              /\ heap'[o].ca_ready = heap[o].ca_ready
              /\ heap'[o].rt_processed = heap[o].rt_processed

\* The step is the append of the result.
C27_Append ==
    (pc = "append_processed" /\ pc' # pc) =>
        LET rt == heap[cur].rt_processed
            rt2 == heap'[cur].rt_processed
        IN /\ pc' = "flush"
           /\ processed_frame.timestamp = ready_frame.timestamp
           /\ Len(rt2) = Min(Len(rt) + 1, _rt_maxlen)
           /\ Last(rt2) = processed_frame
           /\ heap'[cur].ca_ready = heap[cur].ca_ready
           /\ \A o \in DOMAIN heap \ {cur} : heap'[o] = heap[o]

\* No other step takes from a ready queue or changes a real-time queue.
C27_Only ==
    \A o \in DOMAIN heap \cap DOMAIN heap' :
        /\ Len(heap'[o].ca_ready) < Len(heap[o].ca_ready) => (pc = "pop" /\ o = cur)
        /\ heap'[o].rt_processed # heap[o].rt_processed =>
              (pc = "append_processed" /\ o = cur)

\* C27: submit_frame(id, f) appends one record to the tail of id's ca_ready
\* and changes nothing else of id's ClientQueues and nothing of any other
\* client; the processing of a frame of id takes one record from the head of
\* id's ca_ready and appends one record, the frame's result, to id's
\* rt_processed, which drops its oldest when it is full.
C27_FrameEffect == [][C27_Submit /\ C27_Pop /\ C27_Between /\ C27_Append /\ C27_Only]_vars

-----------------------------------------------------------------------------
(* terminate_task (SpecTaskService) *)

\* The task the caller holds has a row in clean_task.
HasRow == task_obj # NoTask /\ task_obj.task_id \in DOMAIN clean_task

C28_Step ==
    svc_ret'.op = "terminate_task" =>
        /\ ~ HasRow => /\ svc_ret'.value = FALSE
                       /\ UNCHANGED <<task_obj, clean_task>>
        /\ HasRow => \/ /\ svc_ret'.value = TRUE
                        /\ clean_task'[task_obj.task_id].status = "terminated"
                        /\ task_obj'.status = "terminated"
                     \/ /\ svc_ret'.value = FALSE
                        /\ UNCHANGED task_obj

\* C28: terminate_task(task) on a task that has a persisted row returns True
\* and leaves the row and the in-memory task with status "terminated", unless
\* the commit fails; when task is None, the row does not exist or the commit
\* fails it returns False and leaves the in-memory task as it was.
C28_TerminateTask == [][C28_Step]_vars

-----------------------------------------------------------------------------
(* The tick of the loop (Spec) *)

\* The snapshot of a tick holds every client once.
C29_State ==
    \A i, j \in 1..Len(items) : items[i].id = items[j].id => i = j

\* A tick starts with the snapshot and its first client, goes through the
\* clients of the snapshot one by one and ends behind the last of them.
C29_Visit ==
    /\ (pc = "loop" /\ pc' = "check") => (items' = _clients /\ idx' = 1)
    /\ pc # "loop" => (items' = items /\ idx' \in {idx, idx + 1})
    /\ (pc # "loop" /\ idx' = idx + 1) => pc' = "check"
    /\ (pc = "check" /\ pc' = "loop") => idx > Len(items)
    /\ (pc = "check" /\ pc' = "pop") => (idx' = idx /\ idx <= Len(items))
    /\ (pc' = "pop" /\ pc # "pop") => pc = "check"
    /\ (pc' = "check" /\ pc # "check") => (pc = "loop" \/ idx' = idx + 1)

\* A visit pops the oldest frame of a client that has one and goes on to the
\* next client otherwise; nothing else takes a frame from a ready queue.
C29_Pop ==
    /\ \A o \in DOMAIN heap :
          Len(heap'[o].ca_ready) < Len(heap[o].ca_ready) =>
              /\ pc = "pop" /\ o = cur
              /\ ready_frame' = Head(heap[o].ca_ready)
              /\ heap'[o].ca_ready = Tail(heap[o].ca_ready)
              /\ idx' = idx
    /\ (pc = "pop" /\ pc' # "pop") =>
          IF heap[cur].ca_ready = <<>>
          THEN idx' = idx + 1 /\ heap' = heap
          ELSE Len(heap'[cur].ca_ready) < Len(heap[cur].ca_ready)

\* The pipeline has returned the result of the frame popped.
PipelineReturned ==
    /\ ready_frame # NoFrame
    /\ processed_frame # NoFrame
    /\ processed_frame.timestamp = ready_frame.timestamp

\* pop, pipeline, the appends and latest_processed, flush check, next client
C29_Order ==
    /\ (processed_frame' # processed_frame /\ processed_frame' # NoFrame) =>
          /\ ready_frame # NoFrame
          /\ ready_frame' = ready_frame
    /\ \A o \in DOMAIN heap :
          Len(heap'[o].ca_raw) > Len(heap[o].ca_raw) =>
              /\ o = cur
              /\ PipelineReturned
              /\ heap'[o].ca_raw = Append(heap[o].ca_raw, ready_frame)
    /\ \A o \in DOMAIN heap :
          \/ Len(heap'[o].ca_processed) > Len(heap[o].ca_processed)
          \/ heap'[o].rt_processed # heap[o].rt_processed
          \/ heap'[o].latest_processed # heap[o].latest_processed
          => /\ o = cur
             /\ PipelineReturned
             /\ heap'[o].ca_processed = Append(heap[o].ca_processed, processed_frame)
             /\ Last(heap'[o].rt_processed) = processed_frame
             /\ heap'[o].latest_processed = processed_frame
             /\ pc' = "flush" /\ idx' = idx
    /\ (pc = "flush" /\ pc' # "flush") =>
          /\ heap[cur].latest_processed = processed_frame
          /\ PipelineReturned
    /\ (pc # "loop" /\ idx' = idx + 1) =>
          \/ pc = "pop" /\ heap[cur].ca_ready = <<>>
          \/ pc \in {"flush"} \cup FlushPcs
          \/ PipelineRaised

\* C29: in one tick the loop visits each client of the tick's snapshot once
\* and pops the oldest frame of every client whose ready queue is not empty;
\* no client has two frames popped in a tick; and for each popped frame the
\* steps come in the order pop, pipeline, append to ca_raw, ca_processed and
\* rt_processed, latest_processed, flush check, before the next client.
C29_RoundRobinTick == [] C29_State /\ [][C29_Visit /\ C29_Pop /\ C29_Order]_vars

-----------------------------------------------------------------------------
(* The loop after stop() (SpecLifecycle) *)

\* stop() has returned and start() has not been called since.
StopReturned == _stop_event /\ stop_pc = "idle"

\* The step takes a frame from a ready queue or changes a queue that only the
\* loop writes.
WorkerWrites ==
    \E o \in DOMAIN heap :
        \/ Len(heap'[o].ca_ready) < Len(heap[o].ca_ready)
        \/ heap'[o].ca_raw # heap[o].ca_raw
        \/ heap'[o].ca_processed # heap[o].ca_processed
        \/ heap'[o].rt_processed # heap[o].rt_processed

C30_Step ==
    /\ _stop_event =>
          /\ pc # "pop" => pc' # "pop"
          /\ pc = "loop" => pc' \in {"loop", "exit"}
          /\ pc # "loop" => (items' = items /\ idx' \in {idx, idx + 1})
    /\ StopReturned => ~ WorkerWrites

\* C30: once stop() has set the event the loop finishes at most the client it
\* is at and starts no other; once stop() has returned no frame is popped from
\* a ready queue and the loop appends nothing to a queue and drains none, also
\* when join(timeout=1.0) has timed out.
C30_StoppedAfterStop == [][C30_Step]_vars

-----------------------------------------------------------------------------
(* The number of inference threads (SpecStart) *)

\* The threads that are running _inference_loop.
AliveThreads == (IF Stopped THEN 0 ELSE 1) + other_threads

\* C31: at most one thread runs _inference_loop at any time, under every
\* sequence and interleaving of start() and stop() calls: start() called
\* twice, start() after a stop() whose join timed out.
C31_OneWorker == AliveThreads <= 1

-----------------------------------------------------------------------------
(* The two phases of a pipeline call (SpecPipeline) *)

\* The enabled tasks of the registry at the start of the call that declare no
\* dependency.
IndependentAtCall ==
    {tasks_at_call[i].name :
        i \in {j \in 1..Len(tasks_at_call) :
                  tasks_at_call[j].enabled /\ tasks_at_call[j].requires = <<>>}}

\* The invocations of dependent tasks in infer_log: those behind the first
\* Len(futures) entries.
SerialEntries == (Len(futures) + 1)..Len(infer_log)

\* C32: in a pipeline call no dependent task's infer starts before every
\* enabled independent task has its result, success or failure, in the result
\* map; the dependent tasks run one after the other in the order in which they
\* were registered; and the context of each holds the results of all
\* independent tasks and of every dependent task that ran before it.
C32_PhaseOrdering ==
    pl_pc # "raised" =>
        /\ {infer_log[i].name : i \in 1..Len(futures)} = IndependentAtCall
        /\ pl_pc = "collect" => SerialEntries = {}
        /\ \A i \in SerialEntries :
              /\ infer_log[i].name \notin IndependentAtCall
              /\ \A j \in 1..Len(futures) :
                    /\ infer_log[j].outcome # "running"
                    /\ infer_log[j].name \in infer_log[i].results
              /\ \A j \in SerialEntries : j < i => infer_log[j].name \in infer_log[i].results
              /\ \A j \in SerialEntries :
                    j < i => IndexOf(tasks_at_call, infer_log[j].name)
                                < IndexOf(tasks_at_call, infer_log[i].name)
        /\ pl_pc \in {"visualize", "done"} =>
              \A k \in 1..Len(tasks_at_call) :
                  (tasks_at_call[k].enabled /\ tasks_at_call[k].requires # <<>>) =>
                      \E i \in SerialEntries : infer_log[i].name = tasks_at_call[k].name

\* A finished call in which an independent task timed out and two dependent
\* tasks ran, the second with the result of the first in its context.
C32_Witness ==
    /\ pl_pc = "done"
    /\ \E j \in 1..Len(futures) : infer_log[j].outcome = "timeout"
    /\ Cardinality(SerialEntries) >= 2
    /\ infer_log[Len(infer_log) - 1].name \in infer_log[Len(infer_log)].results

-----------------------------------------------------------------------------
(* The execution order of the registry (SpecPipeline) *)

Registered(ts) == Range(Names(ts))

\* The names of order whose task in ts declares a dependency.
DependentOrder(ts, order) ==
    SelectSeq(order, LAMBDA n : ts[IndexOf(ts, n)].requires # <<>>)

C33_State ==
    /\ Range(_execution_order) = Registered(_tasks)
    /\ Len(_execution_order) = Cardinality(Registered(_tasks))
    /\ \A i, j \in 1..Len(_execution_order) :
          (/\ _tasks[IndexOf(_tasks, _execution_order[i])].requires = <<>>
           /\ _tasks[IndexOf(_tasks, _execution_order[j])].requires # <<>>) => i < j

\* The order of the dependent tasks is the order in which their names came
\* into the registry: a new name goes behind the others, a name that leaves
\* does not move the others, and nothing else changes the order.
C33_Step ==
    (_tasks' # _tasks \/ _execution_order' # _execution_order) =>
        LET old == DependentOrder(_tasks, _execution_order)
            new == DependentOrder(_tasks', _execution_order')
        IN /\ Registered(_tasks') = Registered(_tasks) => new = old
           /\ \A n \in Registered(_tasks') \ Registered(_tasks) :
                 new \in {old, Append(old, n)}
           /\ \A n \in Registered(_tasks) \ Registered(_tasks') :
                 new = SelectSeq(old, LAMBDA m : m # n)

\* C33: after every sequence of register and unregister calls, also of a name
\* that is registered already or of one that is unknown, _execution_order
\* lists every registered name once and no other name, the tasks without
\* dependency before those with one, and the dependent tasks in the order of
\* their registration.
C33_ExecutionOrder == [] C33_State /\ [][C33_Step]_vars

\* Two registry operations have been made, the first of which registered
\* cleanliness behind motion; the second was a register of a name already
\* there or an unregister of an unknown one.
C33_Witness ==
    /\ registry_ops >= 2
    /\ Names(_tasks) = <<"detection", "motion", "endoscope_bending_detection",
                         "cleanliness">>
    /\ \A i \in 1..Len(_tasks) : _tasks[i].enabled
    /\ DependentOrder(_tasks, _execution_order) = <<"motion", "cleanliness">>

-----------------------------------------------------------------------------
(* The composition of the output frame (SpecPipeline) *)

\* The frames the composition loop can produce from frame with the tasks
\* ts[i], ts[i+1], ...: visualize is applied for a task whose result succeeded,
\* and a visualize that raised (may_raise) leaves the frame as it was.
RECURSIVE Compositions(_, _, _, _, _)
Compositions(frame, ts, res, i, may_raise) ==
    IF i > Len(ts) THEN {frame}
    ELSE IF ts[i].name \in DOMAIN res /\ res[ts[i].name].success
         THEN Compositions(Visualize(ts[i], frame), ts, res, i + 1, may_raise)
              \cup (IF may_raise
                    THEN Compositions(frame, ts, res, i + 1, may_raise)
                    ELSE {})
         ELSE Compositions(frame, ts, res, i + 1, may_raise)

\* A visualize of the call raised: the call counts more calls that did not
\* succeed than its infer calls account for.
VisualizeRaised ==
    pl_faults > Cardinality({i \in 1..Len(infer_log) : infer_log[i].outcome # "ok"})

\* C34: a pipeline call returns, and its output frame is the fold of visualize
\* over the enabled tasks of the call, the independent ones first and then the
\* dependent ones, from a copy of the input frame: visualize is applied for
\* the tasks whose result has success true, each returned frame goes into the
\* next visualize, and the tasks whose result failed are skipped.
C34_Composition ==
    /\ pl_pc # "raised"
    /\ pl_pc = "done" =>
          result_frame \in Compositions(<<>>, IndependentTasks(tasks) \o DependentTasks(tasks),
                                        all_results, 1, VisualizeRaised)

-----------------------------------------------------------------------------
(* The two cache queues side by side (SpecLifecycle) *)

\* Two sequences of frame records of the same length whose records at the same
\* position carry the same capture timestamp.
Aligned(raw, processed) ==
    /\ Len(raw) = Len(processed)
    /\ \A i \in 1..Min(Len(raw), Len(processed)) :
          raw[i].timestamp = processed[i].timestamp

\* The loop is between the processing of two clients.
TickBoundary == pc \in {"loop", "check"}

\* C35: at every tick boundary the raw-cache and the processed-cache of a
\* client have the same length and hold, position by position, records of the
\* same submitted frame, and so do the two sides a flush has drained, also
\* after a pipeline call has raised for some frame.
C35_Alignment ==
    /\ TickBoundary =>
          \A r \in DOMAIN heap : Aligned(heap[r].ca_raw, heap[r].ca_processed)
    /\ pc = "write_raw" => Aligned(raw_frames_data, processed_frames_data)

-----------------------------------------------------------------------------
(* start() after stop() (SpecLifecycle) *)

\* stop() has returned and a later start() has brought up a new loop.
Restarted == _executor = "shutdown" /\ stop_pc = "idle" /\ ~ _stop_event /\ ~ Stopped

\* C36: after stop() has returned and start() was called again, the loop
\* handles a frame it popped as before: the pipeline call hands the enabled
\* independent tasks to the pool and runs to its end, and the frame's record is
\* appended to the processed-cache and the real-time queue of its client.
C36_Step ==
    (Restarted /\ pc \in {"submit", "infer", "append_processed"} /\ pc' # pc) =>
        /\ pc = "submit" => pc' = "infer"
        /\ pc = "infer" => pc' = "append_processed"
        /\ pc = "append_processed" =>
              /\ Last(heap'[cur].ca_processed).timestamp = ready_frame.timestamp
              /\ Last(heap'[cur].rt_processed).timestamp = ready_frame.timestamp

C36_Restart == [][C36_Step]_vars

-----------------------------------------------------------------------------
(* The frames of every client are served (SpecFair) *)

\* The frame that client c submitted as its t-th waits in the ready queue.
Waiting(c, t) ==
    /\ HasClient(c)
    /\ \E i \in 1..Len(heap[Ref(c)].ca_ready) : heap[Ref(c)].ca_ready[i].timestamp = t

\* The result of that frame is in the real-time queue of the client.
InRealTime(c, t) ==
    /\ HasClient(c)
    /\ \E i \in 1..Len(heap[Ref(c)].rt_processed) :
          heap[Ref(c)].rt_processed[i].timestamp = t

\* C37: while the loop runs, every frame that waits in the ready queue of a
\* client is eventually popped and its result appended to the real-time queue
\* of the client, whatever the other client submits meanwhile.
C37_NoStarvation ==
    \A c \in ClientIds : \A t \in 1..MaxFramesFair :
        (~ Stopped /\ Waiting(c, t)) ~> InRealTime(c, t)

-----------------------------------------------------------------------------
(* The length of the cache queues (Spec) *)

\* C38: the processed-cache and the raw-cache of every client never hold more
\* records than the segment length, and fewer at every tick boundary.
C38_CacheBounded ==
    \A r \in DOMAIN heap :
        /\ Len(heap[r].ca_processed) <= heap[r].ca_segment_len
        /\ Len(heap[r].ca_raw) <= heap[r].ca_segment_len
        /\ TickBoundary =>
              /\ Len(heap[r].ca_processed) < heap[r].ca_segment_len
              /\ Len(heap[r].ca_raw) < heap[r].ca_segment_len

-----------------------------------------------------------------------------
(* The task of a segment (SpecLock) *)

\* C39: the task whose id a flush takes for its two segment records is the
\* task that was bound to the client when the frames of the segment were
\* processed, here the frame that completed the segment; a set_task call
\* between the processing and the flush does not change it.
C39_Step == (pc = "flush" /\ pc' = "mkdir") => heap[cur].task = pl_task

C39_SegmentAttribution == [][C39_Step]_vars

-----------------------------------------------------------------------------
(* The timestamps of concurrent submit_frame calls (SpecSubmit) *)

\* The capture timestamps of a queue do not decrease from head to tail.
Monotone(q) == \A i, j \in 1..Len(q) : i < j => q[i].timestamp <= q[j].timestamp

\* C40: whatever the interleaving of concurrent submit_frame calls for the
\* same client, the capture timestamps of the records in its ready queue do
\* not decrease from head to tail, and every segment record stored has
\* start_ts <= end_ts.
C40_MonotoneTimestamps ==
    /\ \A r \in DOMAIN heap : Monotone(heap[r].ca_ready)
    /\ \A k \in 1..Len(db) : db[k].start_ts <= db[k].end_ts

====
